---- MODULE Spec2Model ----
(***************************************************************************)
(* Model of cf_ai_study_buddy: the per-user Study State Store (durable     *)
(* object StudyState) with sessions, chat histories, quizzes, quiz results *)
(* and the progress aggregate, one action per store operation; the         *)
(* gateway's chat handler; and the two workflows, one action per step.     *)
(*                                                                         *)
(* JavaScript numbers that the store divides (percentages, averages,       *)
(* mastery levels) are modelled as exact rationals [n, d] in lowest terms; *)
(* d = 0 encodes the non-finite values: 0/0 is NaN, 1/0 and -1/0 are the   *)
(* infinities.  Times are integer milliseconds; the model's clock advances *)
(* by whole minutes, so a duration in minutes (ms / 1000 / 60) is exact.   *)
(***************************************************************************)
EXTENDS Integers, Sequences, FiniteSets, TLC

VARIABLES
    now,             \* Date.now(), milliseconds
    sessions,        \* userState.sessions, in insertion order
    quizzes,         \* userState.quizzes, quiz id -> Quiz
    quizResults,     \* userState.quizResults
    totalStudyTime,  \* progress.totalStudyTime (minutes)
    totalSessions,   \* progress.totalSessions
    totalQuizzes,    \* progress.totalQuizzes
    averageScore,    \* progress.averageScore
    topicsStudied,   \* progress.topicsStudied
    recentActivity,  \* progress.recentActivity, newest first
    response,        \* the Response of the last store operation
    chatHistories,   \* userState.chatHistories, session id -> messages
    chatReqs,        \* POST /api/chat requests in flight at the gateway
    quizRuns,        \* instances of QuizGeneratorWorkflow
    cache,           \* the CACHE namespace, key -> value and expiry
    studyRuns,       \* instances of StudySessionWorkflow
    spacedRepetitionQueue, \* userState.spacedRepetitionQueue
    storage,         \* state.storage: <<>> or the userState last put
    putRejects,      \* whether state.storage.put rejects at present
    studyReqs,       \* POST /api/study/start requests in flight at the gateway
    apiResponse,     \* the gateway's last Response to a client
    client,          \* the quiz page of the frontend: its quizId
    user,            \* the user id whose StudyState instance the store variables show
    parked           \* the StudyState instances of the other user ids

progress == <<totalStudyTime, totalSessions, totalQuizzes, averageScore,
              topicsStudied, recentActivity>>

userState == <<sessions, chatHistories, quizzes, quizResults, progress,
              spacedRepetitionQueue>>

\* what lives outside the store: the gateway, the workflows and the cache
edge == <<studyReqs, apiResponse, client, user, parked>>

clients == <<chatReqs, quizRuns, cache, studyRuns, edge>>

\* the durable storage of the object and its health
durable == <<storage, putRejects>>

vars == <<now, userState, response, durable, clients>>

----------------------------------------------------------------------------
(* Bounds of the model *)

MaxOps == 5            \* state-changing operations and clock ticks in one behaviour
ActivityRuns == 50     \* sessions created in one behaviour of SpecActivity
ActivityResults == 2   \* submissions stored in one behaviour of SpecActivity

(* Program constants *)

MsPerSecond == 1000
SecondsPerMinute == 60
RecentActivityCap == 50
MasteryCap == 100
SessionWeight == 10
PercentScale == 100

Topics == {"Physics", "Calculus"}

----------------------------------------------------------------------------
(* JavaScript number arithmetic on exact rationals *)

Abs(x) == IF x < 0 THEN 0 - x ELSE x

Sign(x) == IF x < 0 THEN 0 - 1 ELSE IF x > 0 THEN 1 ELSE 0

RECURSIVE GCD(_, _)
GCD(a, b) == IF b = 0 THEN a ELSE GCD(b, a % b)

\* n/d in lowest terms with d >= 0; x/0 is NaN (x = 0) or an infinity
Rat(n, d) ==
    IF d = 0 THEN [n |-> Sign(n), d |-> 0]
    ELSE LET g == GCD(Abs(n), Abs(d))
             s == Sign(d)
         IN  [n |-> (s * n) \div g, d |-> (s * d) \div g]

Num(i) == [n |-> i, d |-> 1]

NaN == [n |-> 0, d |-> 0]

IsNaN(x) == x.d = 0 /\ x.n = 0

IsFinite(x) == x.d > 0

\* x + y
NumAdd(x, y) ==
    IF IsNaN(x) \/ IsNaN(y) THEN NaN
    ELSE IF x.d = 0 /\ y.d = 0 THEN (IF x.n = y.n THEN x ELSE NaN)
    ELSE IF x.d = 0 THEN x
    ELSE IF y.d = 0 THEN y
    ELSE Rat(x.n * y.d + y.n * x.d, x.d * y.d)

\* x * y
NumMul(x, y) ==
    IF IsNaN(x) \/ IsNaN(y) THEN NaN
    ELSE Rat(x.n * y.n, x.d * y.d)

\* x / y
NumDiv(x, y) ==
    IF IsNaN(x) \/ IsNaN(y) THEN NaN
    ELSE IF x.d = 0 /\ y.d = 0 THEN NaN
    ELSE IF y.d = 0 THEN Num(0)
    ELSE Rat(x.n * y.d * (IF y.n < 0 THEN 0 - 1 ELSE 1), x.d * Abs(y.n))

\* x < y; every comparison with NaN is false
NumLt(x, y) ==
    /\ ~IsNaN(x)
    /\ ~IsNaN(y)
    /\ IF x.d = 0 /\ y.d = 0 THEN x.n < y.n
       ELSE IF x.d = 0 THEN x.n < 0
       ELSE IF y.d = 0 THEN y.n > 0
       ELSE x.n * y.d < y.n * x.d

\* x <= y
NumLe(x, y) == ~IsNaN(x) /\ ~IsNaN(y) /\ ~NumLt(y, x)

\* Math.min(x, y): NaN when either argument is NaN
MathMin(x, y) ==
    IF IsNaN(x) \/ IsNaN(y) THEN NaN
    ELSE IF NumLt(y, x) THEN y ELSE x

\* xs.reduce((sum, s) => sum + s, 0)
RECURSIVE SumNums(_)
SumNums(xs) ==
    IF xs = <<>> THEN Num(0)
    ELSE NumAdd(SumNums(SubSeq(xs, 1, Len(xs) - 1)), xs[Len(xs)])

----------------------------------------------------------------------------
(* Strings that the store compares: sequences of one-letter strings *)

UpperLetters == <<"A", "B", "T", "F">>

LowerLetters == <<"a", "b", "t", "f">>

\* one character of String.prototype.toLowerCase
LowerChar(c) ==
    IF \E i \in 1..Len(UpperLetters) : UpperLetters[i] = c
    THEN LowerLetters[CHOOSE i \in 1..Len(UpperLetters) : UpperLetters[i] = c]
    ELSE c

\* a comparison that keeps the letter case
KeepCase(s) == s

\* s.toLowerCase()
ToLowerCase(s) == [i \in 1..Len(s) |-> LowerChar(s[i])]

StrA == <<"A">>
StrLowerA == <<"a">>
StrTrue == <<"T", "r", "u", "e">>
StrLowerTrue == <<"t", "r", "u", "e">>
StrFalse == <<"F", "a", "l", "s", "e">>

----------------------------------------------------------------------------
(* Inputs: the question lists a stored quiz can have, and answer mappings *)

\* two questions: 10 points with answer "A", 15 points with answer "True"
TwoQuestions ==
    << [id |-> "q1", correctAnswer |-> StrA, points |-> 10],
       [id |-> "q2", correctAnswer |-> StrTrue, points |-> 15] >>

\* the validate-questions step of the quiz workflow can discard every candidate
NoQuestions == <<>>

QuestionLists == {TwoQuestions, NoQuestions}

NoAnswers == [q \in {} |-> StrA]

AnswerSheets ==
    { [q \in {"q1", "q2"} |-> IF q = "q1" THEN StrLowerA ELSE StrFalse],
      [q \in {"q1", "q2"} |-> IF q = "q1" THEN StrA ELSE StrLowerTrue],
      NoAnswers }

----------------------------------------------------------------------------
(* Helpers of the store operations *)

OkResponse(op) == [op |-> op, status |-> 200, result |-> <<>>]

\* this.userState.sessions[sessionId]: the index of the entry, 0 when absent
SessionIndex(ss, sessionId) ==
    IF \E i \in 1..Len(ss) : ss[i].id = sessionId
    THEN CHOOSE i \in 1..Len(ss) : ss[i].id = sessionId
    ELSE 0

\* topicsStudied.find(t => t.topic === topic): the index, 0 when absent
TopicIndex(ts, topic) ==
    IF \E i \in 1..Len(ts) : ts[i].topic = topic
    THEN CHOOSE i \in 1..Len(ts) :
             ts[i].topic = topic /\ \A j \in 1..(i - 1) : ts[j].topic # topic
    ELSE 0

QuizWeight == Rat(1, 2)

\* the mastery level recomputed from the session count alone
SessionMasteryWithoutQuizzes(sessionsCount, quizAverage) ==
    MathMin(Num(MasteryCap), Num(sessionsCount * SessionWeight))

\* Math.min(100, sessionsCount * 10 + quizAverage * 0.5) in updateTopicProgress
SessionMastery(sessionsCount, quizAverage) ==
    MathMin(Num(MasteryCap),
            NumAdd(Num(sessionsCount * SessionWeight), NumMul(quizAverage, QuizWeight)))

\* Math.min(100, sessionsCount * 10 + quizAverage * 0.5) in updateTopicQuizAverage
QuizMastery(sessionsCount, quizAverage) ==
    MathMin(Num(MasteryCap),
            NumAdd(Num(sessionsCount * SessionWeight), NumMul(quizAverage, QuizWeight)))

\* updateTopicProgress(topic, duration)
UpdateTopicProgress(ts, topic, duration) ==
    LET fresh == [topic |-> topic, masteryLevel |-> Num(0), timeSpent |-> 0,
                  sessionsCount |-> 0, quizAverage |-> Num(0)]
        withTopic == IF TopicIndex(ts, topic) = 0 THEN Append(ts, fresh) ELSE ts
        i == TopicIndex(withTopic, topic)
        old == withTopic[i]
        count == old.sessionsCount + 1
    IN  [withTopic EXCEPT ![i] =
            [old EXCEPT !.timeSpent = old.timeSpent + duration,
                        !.sessionsCount = count,
                        !.masteryLevel = SessionMastery(count, old.quizAverage)]]

\* quizResults.filter(r => quizzes[r.quizId]?.topic === topic)
ResultsOfTopic(results, qs, topic) ==
    LET onTopic(r) == r.quizId \in DOMAIN qs /\ qs[r.quizId].topic = topic
    IN  SelectSeq(results, onTopic)

\* rs.map(r => r.percentage)
Percentages(rs) == [i \in 1..Len(rs) |-> rs[i].percentage]

\* updateTopicQuizAverage(topic, score)
UpdateTopicQuizAverage(ts, results, qs, topic) ==
    LET i == TopicIndex(ts, topic)
        onTopic == ResultsOfTopic(results, qs, topic)
        avg == NumDiv(SumNums(Percentages(onTopic)), Num(Len(onTopic)))
    IN  IF i = 0 THEN ts
        ELSE [ts EXCEPT ![i] =
                [ts[i] EXCEPT !.quizAverage = avg,
                              !.masteryLevel = QuizMastery(ts[i].sessionsCount, avg)]]

\* quiz.questions.reduce((sum, q) => sum + q.points, 0)
RECURSIVE MaxScoreOf(_)
MaxScoreOf(questions) ==
    IF questions = <<>> THEN 0
    ELSE MaxScoreOf(SubSeq(questions, 1, Len(questions) - 1))
         + questions[Len(questions)].points

\* answers[question.id]?.toLowerCase() === question.correctAnswer.toLowerCase()
IsCorrect(question, answers) ==
    /\ question.id \in DOMAIN answers
    /\ ToLowerCase(answers[question.id]) = ToLowerCase(question.correctAnswer)

\* the forEach loop that adds the points of the correct answers
RECURSIVE ScoreOf(_, _)
ScoreOf(questions, answers) ==
    IF questions = <<>> THEN 0
    ELSE ScoreOf(SubSeq(questions, 1, Len(questions) - 1), answers)
         + (IF IsCorrect(questions[Len(questions)], answers)
            THEN questions[Len(questions)].points ELSE 0)

\* (score / maxScore) * 100
PercentageOf(score, maxScore) ==
    NumMul(NumDiv(Num(score), Num(maxScore)), Num(PercentScale))

\* one result per quiz: a later submission replaces the earlier one
UpsertResult(results, result) ==
    IF \E i \in 1..Len(results) : results[i].quizId = result.quizId
    THEN [results EXCEPT ![CHOOSE i \in 1..Len(results) :
                               results[i].quizId = result.quizId] = result]
    ELSE Append(results, result)

\* this.userState.quizResults.push(result)
PushResult(results, result) == Append(results, result)

\* the mean of the raw scores instead of the percentages
AverageOfRawScores(results) ==
    NumDiv(SumNums([i \in 1..Len(results) |-> Num(results[i].score)]), Num(Len(results)))

\* allScores.reduce((sum, s) => sum + s, 0) / allScores.length
AverageScore(results) ==
    NumDiv(SumNums(Percentages(results)), Num(Len(results)))

\* recentActivity.unshift(record)
Unshift(activity, record) == <<record>> \o activity

\* recentActivity.slice(0, 50)
KeepRecent(activity) ==
    SubSeq(activity, 1, IF Len(activity) < RecentActivityCap
                        THEN Len(activity) ELSE RecentActivityCap)

----------------------------------------------------------------------------
(* The store after construction: createDefaultState() *)

\* the catch of StudyState.fetch: 500 Internal error
InternalError(op) == [op |-> op, status |-> 500, result |-> <<>>]

\* await this.state.storage.put('userState', this.userState), then the
\* handler's Response; a rejected put leaves the storage as it was and the
\* catch of fetch answers
StoragePut(answer) ==
    /\ IF putRejects
       THEN /\ storage' = storage
            /\ response' = InternalError(answer.op)
       ELSE /\ storage' = <<userState'>>
            /\ response' = answer
    /\ UNCHANGED putRejects

\* userId = 'default-user' when the request names none
DefaultUser == "default-user"

UserIds == {DefaultUser, "alice"}

\* createDefaultState(), in the order of userState
DefaultState ==
    << <<>>, [s \in {} |-> <<>>], [q \in {} |-> NoQuestions], <<>>,
       <<0, 0, 0, Num(0), <<>>, <<>> >>, <<>> >>

\* an instance that has served no request: the default state, nothing stored
NotLoaded == <<DefaultState, <<>> >>

\* no Response yet
NoReply == [op |-> "none", status |-> 0, body |-> <<>>]

\* Quiz ids are numbers: the ids quiz_<ms>_<random> of the gateway and the
\* workflow are positive, the empty string is 0
NoQuizId == 0

\* useState(''): the quiz page before a quiz was generated
NewQuizPage == [quizId |-> NoQuizId]

Init ==
    /\ now = 0
    /\ sessions = <<>>
    /\ quizzes = [q \in {} |-> NoQuestions]
    /\ quizResults = <<>>
    /\ totalStudyTime = 0
    /\ totalSessions = 0
    /\ totalQuizzes = 0
    /\ averageScore = Num(0)
    /\ topicsStudied = <<>>
    /\ recentActivity = <<>>
    /\ response = [op |-> "none", status |-> 0, result |-> <<>>]
    /\ chatHistories = [s \in {} |-> <<>>]
    /\ chatReqs = <<>>
    /\ quizRuns = <<>>
    /\ cache = [k \in {} |-> <<>>]
    /\ studyRuns = <<>>
    /\ spacedRepetitionQueue = <<>>
    /\ storage = <<>>
    /\ putRejects = FALSE
    /\ studyReqs = <<>>
    /\ apiResponse = NoReply
    /\ client = NewQuizPage
    /\ user = DefaultUser
    /\ parked = [u \in UserIds \ {DefaultUser} |-> NotLoaded]

----------------------------------------------------------------------------
(* Store operations.  Fields of a session or quiz that no store operation  *)
(* reads (duration, difficulty, createdAt, question text, lastStudied,     *)
(* completedAt, timeSpent of a result) are left out.                       *)

\* the clock advances by one minute
Tick ==
    /\ now' = now + MsPerSecond * SecondsPerMinute
    /\ UNCHANGED <<userState, response, durable>>

\* POST /session/create; the gateway sends a fresh id and status active
CreateSession(id, topic, startTime) ==
    /\ SessionIndex(sessions, id) = 0
    /\ sessions' = Append(sessions, [id |-> id, topic |-> topic, startTime |-> startTime,
                                     endTime |-> <<>>, status |-> "active"])
    /\ totalSessions' = totalSessions + 1
    /\ recentActivity' =
           KeepRecent(Unshift(recentActivity,
               [type |-> "session", topic |-> topic, timestamp |-> startTime,
                score |-> <<>>]))
    /\ UNCHANGED <<now, chatHistories, spacedRepetitionQueue, quizzes, quizResults,
                   totalStudyTime, totalQuizzes, averageScore, topicsStudied>>
    /\ StoragePut(OkResponse("createSession"))

\* an unknown session id is answered with an error
CompleteUnknownRejected ==
    /\ response' = [op |-> "completeSession", status |-> 404, result |-> <<>>]
    /\ UNCHANGED <<now, userState, durable>>

\* completeSession when no session has the id: nothing is stored, success
CompleteUnknown ==
    /\ response' = OkResponse("completeSession")
    /\ UNCHANGED <<now, userState, durable>>

\* POST /session/complete
CompleteSession(sessionId) ==
    LET i == SessionIndex(sessions, sessionId)
        duration == ((now - sessions[i].startTime) \div MsPerSecond) \div SecondsPerMinute
    IN  IF i # 0
        THEN /\ sessions' = [sessions EXCEPT ![i] =
                                [@ EXCEPT !.status = "completed", !.endTime = <<now>>]]
             /\ totalStudyTime' = totalStudyTime + duration
             /\ topicsStudied' =
                    UpdateTopicProgress(topicsStudied, sessions[i].topic, duration)
             /\ UNCHANGED <<now, chatHistories, spacedRepetitionQueue, quizzes,
                            quizResults, totalSessions, totalQuizzes, averageScore,
                            recentActivity>>
             /\ StoragePut(OkResponse("completeSession"))
        ELSE CompleteUnknown

\* POST /quiz/save; the workflow sends a fresh id
SaveQuiz(id, topic, questions) ==
    /\ id \notin DOMAIN quizzes
    /\ quizzes' = [q \in DOMAIN quizzes \cup {id} |->
                      IF q = id THEN [id |-> id, topic |-> topic, questions |-> questions]
                      ELSE quizzes[q]]
    /\ UNCHANGED <<now, sessions, chatHistories, spacedRepetitionQueue, quizResults,
                   progress>>
    /\ StoragePut(OkResponse("saveQuiz"))

\* the attempt is counted before the quiz is looked up
SubmitNotFoundCounted ==
    /\ response' = [op |-> "submitQuiz", status |-> 404, result |-> <<>>]
    /\ totalQuizzes' = totalQuizzes + 1
    /\ UNCHANGED durable
    /\ UNCHANGED <<now, sessions, chatHistories, spacedRepetitionQueue, quizzes, quizResults,
                   totalStudyTime, totalSessions, averageScore, topicsStudied, recentActivity>>

\* submitQuiz when the quiz id is unknown: 404, nothing stored
SubmitNotFound ==
    /\ response' = [op |-> "submitQuiz", status |-> 404, result |-> <<>>]
    /\ UNCHANGED <<now, userState, durable>>

\* submitQuiz when the quiz is stored
SubmitScored(quizId, answers) ==
    LET quiz == quizzes[quizId]
        maxScore == MaxScoreOf(quiz.questions)
        score == ScoreOf(quiz.questions, answers)
        result == [quizId |-> quizId, score |-> score, maxScore |-> maxScore,
                   percentage |-> PercentageOf(score, maxScore),
                   answers |-> answers]
        results == PushResult(quizResults, result)
    IN  /\ quizResults' = results
        /\ totalQuizzes' = totalQuizzes + 1
        /\ averageScore' = AverageScore(results)
        /\ recentActivity' =
               Unshift(recentActivity,
                   [type |-> "quiz", topic |-> quiz.topic, timestamp |-> now,
                    score |-> <<result.percentage>>])
        /\ topicsStudied' = UpdateTopicQuizAverage(topicsStudied, results, quizzes, quiz.topic)
        /\ UNCHANGED <<now, sessions, chatHistories, spacedRepetitionQueue,
                       quizzes, totalStudyTime, totalSessions>>
        /\ StoragePut([op |-> "submitQuiz", status |-> 200, result |-> <<result>>])

\* POST /quiz/submit
SubmitQuiz(quizId, answers) ==
    IF quizId \notin DOMAIN quizzes THEN SubmitNotFound
    ELSE SubmitScored(quizId, answers)

----------------------------------------------------------------------------
(* Specifications *)

\* completeSession calls that found their session so far
RECURSIVE Completions(_)
Completions(ts) ==
    IF ts = <<>> THEN 0
    ELSE Completions(SubSeq(ts, 1, Len(ts) - 1)) + ts[Len(ts)].sessionsCount

\* state-changing operations and clock ticks so far
Ops ==
    Len(sessions) + Cardinality(DOMAIN quizzes) + Len(quizResults)
    + Completions(topicsStudied) + now \div (MsPerSecond * SecondsPerMinute)

DoTick == Ops < MaxOps /\ Tick /\ UNCHANGED clients

DoCreateSession ==
    /\ Ops < MaxOps
    /\ \E topic \in Topics : CreateSession(Len(sessions) + 1, topic, now)
    /\ UNCHANGED clients

\* the ids of the stored sessions and one unknown id
DoCompleteSession ==
    /\ Ops < MaxOps
    /\ \E sessionId \in 1..(Len(sessions) + 1) : CompleteSession(sessionId)
    /\ UNCHANGED clients

DoSaveQuiz ==
    /\ Ops < MaxOps
    /\ \E topic \in Topics, questions \in QuestionLists :
           SaveQuiz(Cardinality(DOMAIN quizzes) + 1, topic, questions)
    /\ UNCHANGED clients

\* the ids of the stored quizzes and one unknown id
DoSubmitQuiz ==
    /\ Ops < MaxOps
    /\ \E quizId \in 1..(Cardinality(DOMAIN quizzes) + 1), answers \in AnswerSheets :
           SubmitQuiz(quizId, answers)
    /\ UNCHANGED clients

Next == DoTick \/ DoCreateSession \/ DoCompleteSession \/ DoSaveQuiz \/ DoSubmitQuiz

Spec == Init /\ [][Next]_vars

\* one topic, one quiz, a stopped clock: long runs of createSession and submitQuiz
ActCreateSession ==
    /\ Len(sessions) < ActivityRuns
    /\ CreateSession(Len(sessions) + 1, "Physics", now)
    /\ UNCHANGED clients

ActSaveQuiz == SaveQuiz(1, "Physics", TwoQuestions) /\ UNCHANGED clients

ActSubmitQuiz ==
    /\ Len(quizResults) < ActivityResults
    /\ SubmitQuiz(1, NoAnswers)
    /\ UNCHANGED clients

NextActivity == ActCreateSession \/ ActSaveQuiz \/ ActSubmitQuiz

SpecActivity == Init /\ [][NextActivity]_vars

----------------------------------------------------------------------------
(* Chat: the store's chat operations and the gateway's POST /api/chat.     *)
(* A message is a sequence of characters; a reply of the model is a word.  *)

MaxChatRequests == 2    \* chat requests in one behaviour of SpecChat
MaxChatMinutes == 1     \* clock ticks in one behaviour of SpecChat

MaxMessageLength == 10000

ChatSessions == {"chatA", "chatB"}

LongMessage == [i \in 1..(MaxMessageLength + 1) |-> "x"]

\* no message, a blank one, a usable one, one that is too long
ChatMessages == {<<>>, <<" ">>, <<"h", "i">>, LongMessage}

\* String.prototype.trim
RECURSIVE Trim(_)
Trim(s) ==
    IF s = <<>> THEN s
    ELSE IF Head(s) = " " THEN Trim(Tail(s))
    ELSE IF s[Len(s)] = " " THEN Trim(SubSeq(s, 1, Len(s) - 1))
    ELSE s

\* the status the gateway's validation answers with, 200 when the message passes
ValidateMessage(message) ==
    IF message = <<>> \/ Len(Trim(message)) = 0 THEN 400
    ELSE IF Len(message) > MaxMessageLength THEN 400
    ELSE 200

\* what AI.run does for a chat: it throws, or answers with a response text
\* that may be empty
ChatAiOutcomes == {"throws", "", "hint"}

Apology == "I apologize, but I encountered an error. Please try again."

\* both messages of a turn carry one timestamp
ChatTurnOneTimestamp(userMessage, aiResponse, timestamp) ==
    << [role |-> "user", content |-> userMessage, timestamp |-> timestamp],
       [role |-> "assistant", content |-> aiResponse, timestamp |-> timestamp] >>

\* the two messages that one saveChatMessage call pushes
ChatTurn(userMessage, aiResponse, timestamp) ==
    << [role |-> "user", content |-> userMessage, timestamp |-> timestamp],
       [role |-> "assistant", content |-> aiResponse, timestamp |-> timestamp + 1] >>

\* history?.messages || []
MessagesOf(sessionId) ==
    IF sessionId \in DOMAIN chatHistories THEN chatHistories[sessionId] ELSE <<>>

\* POST /chat/history
GetChatHistory(sessionId) ==
    /\ response' = [op |-> "getChatHistory", status |-> 200,
                    result |-> MessagesOf(sessionId)]
    /\ UNCHANGED <<now, userState, durable>>

\* POST /chat/save
SaveChatMessage(sessionId, userMessage, aiResponse) ==
    /\ chatHistories' =
           [s \in DOMAIN chatHistories \cup {sessionId} |->
               IF s = sessionId
               THEN MessagesOf(s) \o ChatTurn(userMessage, aiResponse, now)
               ELSE chatHistories[s]]
    /\ UNCHANGED <<now, sessions, quizzes, quizResults, progress,
                   spacedRepetitionQueue>>
    /\ StoragePut(OkResponse("saveChatMessage"))

\* a chat request at the gateway, before its first call to the store
NewChatRequest(sessionId, message) ==
    [sessionId |-> sessionId, message |-> message, pc |-> "history",
     history |-> <<>>, reply |-> "", status |-> 0]

\* POST /api/chat arrives; a message that fails validation is answered 400
ChatArrives(sessionId, message) ==
    /\ chatReqs' = Append(chatReqs,
           IF ValidateMessage(message) = 200
           THEN NewChatRequest(sessionId, message)
           ELSE [NewChatRequest(sessionId, <<>>) EXCEPT !.pc = "done", !.status = 400])
    /\ UNCHANGED <<now, userState, response, quizRuns, cache, studyRuns, durable, edge>>

\* handleChat reads the conversation history from the store
ChatReadsHistory(r) ==
    /\ chatReqs[r].pc = "history"
    /\ GetChatHistory(chatReqs[r].sessionId)
    /\ chatReqs' = [chatReqs EXCEPT ![r] =
                       [@ EXCEPT !.pc = "ai",
                                  !.history = MessagesOf(chatReqs[r].sessionId)]]
    /\ UNCHANGED <<quizRuns, cache, studyRuns, edge>>

\* AIService.chat: a failure of AI.run is rethrown and the request ends in 500
ChatAsksAi(r, outcome) ==
    /\ chatReqs[r].pc = "ai"
    /\ chatReqs' = [chatReqs EXCEPT ![r] =
           IF outcome = "throws" THEN [@ EXCEPT !.pc = "done", !.status = 500]
           ELSE [@ EXCEPT !.pc = "save",
                          !.reply = IF outcome = "" THEN Apology ELSE outcome]]
    /\ UNCHANGED <<now, userState, response, quizRuns, cache, studyRuns, durable, edge>>

\* handleChat saves the turn and answers
ChatSaves(r) ==
    /\ chatReqs[r].pc = "save"
    /\ SaveChatMessage(chatReqs[r].sessionId, chatReqs[r].message, chatReqs[r].reply)
    /\ chatReqs' = [chatReqs EXCEPT ![r] = [@ EXCEPT !.pc = "done", !.status = 200]]
    /\ UNCHANGED <<quizRuns, cache, studyRuns, edge>>

DoChatTick ==
    /\ now < MaxChatMinutes * MsPerSecond * SecondsPerMinute
    /\ Tick
    /\ UNCHANGED clients

DoChatArrives ==
    /\ Len(chatReqs) < MaxChatRequests
    /\ \E sessionId \in ChatSessions, message \in ChatMessages :
           ChatArrives(sessionId, message)

DoChatReadsHistory == \E r \in 1..Len(chatReqs) : ChatReadsHistory(r)

DoChatAsksAi ==
    \E r \in 1..Len(chatReqs), outcome \in ChatAiOutcomes : ChatAsksAi(r, outcome)

DoChatSaves == \E r \in 1..Len(chatReqs) : ChatSaves(r)

NextChat ==
    DoChatTick \/ DoChatArrives \/ DoChatReadsHistory \/ DoChatAsksAi \/ DoChatSaves

\* chat requests of one user, their steps interleaved in any order
SpecChat == Init /\ [][NextChat]_vars

----------------------------------------------------------------------------
(* Study Session Workflow (StudySessionWorkflow.run): eight steps, each one *)
(* action.  A step that throws leaves the run errored; a call to the store  *)
(* is answered 200, or 500 when the store's handler threw.                  *)

MinDuration == 5
MaxDuration == 120
Durations == MinDuration..MaxDuration

HoursPerDay == 24
MinutesPerHour == 60
MsPerDay == HoursPerDay * MinutesPerHour * SecondsPerMinute * MsPerSecond

StoreStatuses == {200, 500}

\* GET /progress/topics
GetTopicProgress ==
    /\ response' = [op |-> "getTopicProgress", status |-> 200, result |-> topicsStudied]
    /\ UNCHANGED <<now, userState, durable>>

\* the catch of StudyState.fetch: 500 Internal error
StoreFails(op) ==
    /\ response' = [op |-> op, status |-> 500, result |-> <<>>]
    /\ UNCHANGED <<now, userState, durable>>

\* x || 0 for a number x
OrZero(x) == IF IsNaN(x) THEN Num(0) ELSE x

\* what load-progress returns from the topics the store answered with
PreviousProgress(topics, topic) ==
    LET i == TopicIndex(topics, topic)
    IN  IF i = 0 THEN [masteryLevel |-> Num(0), timeSpent |-> 0, sessionsCount |-> 0]
        ELSE [masteryLevel |-> OrZero(topics[i].masteryLevel),
              timeSpent |-> topics[i].timeSpent,
              sessionsCount |-> topics[i].sessionsCount]

\* generate-learning-path
Approach(previous) ==
    IF previous.sessionsCount = 0 THEN "introduction"
    ELSE IF NumLt(previous.masteryLevel, Num(50)) THEN "reinforcement"
    ELSE "advanced"

\* getFocusAreas: the first area names the topic
FocusAreas(approach, topic) ==
    IF approach = "introduction"
    THEN << <<"Basic concepts of", topic>>, <<"Fundamental principles">>,
            <<"Simple examples">>, <<"Common terminology">> >>
    ELSE IF approach = "reinforcement"
    THEN << <<"Review core concepts of", topic>>, <<"Practice problems">>,
            <<"Common misconceptions">>, <<"Real-world applications">> >>
    ELSE IF approach = "advanced"
    THEN << <<"Advanced aspects of", topic>>, <<"Complex scenarios">>,
            <<"Edge cases">>, <<"Integration with other concepts">> >>
    ELSE << <<"Understanding", topic>>, <<"Key concepts">>, <<"Examples">> >>

\* what AI.run does for a summary: it throws, or answers with a response
\* text that may be empty
SummaryAiOutcomes == {"throws", "", "recap"}

\* the summary of the catch branch
FallbackSummary(duration, topic) ==
    <<"Completed", duration, "-minute study session on", topic>>

\* the summary step's value for an outcome of AI.run
SummaryOf(outcome, duration, topic) ==
    IF outcome = "throws" THEN FallbackSummary(duration, topic)
    ELSE IF outcome = "" THEN <<"Session completed successfully.">>
    ELSE <<outcome>>

\* the time bonus without its cap
TimeBonusUncapped(duration) == duration \div 10

\* Math.min(10, Math.floor(duration / 10))
TimeBonus(duration) == IF duration \div 10 < 10 THEN duration \div 10 ELSE 10

\* update-mastery
MasteryUpdate(previous, duration) ==
    LET newLevel == MathMin(Num(100),
                        NumAdd(NumAdd(previous.masteryLevel, Num(5)),
                               Num(TimeBonus(duration))))
    IN  [previousLevel |-> previous.masteryLevel, newLevel |-> newLevel,
         increase |-> NumAdd(newLevel, NumMul(Num(0 - 1), previous.masteryLevel))]

\* schedule-repetition: days until the next review
IntervalDays(level) ==
    IF NumLe(Num(80), level) THEN 7
    ELSE IF NumLe(Num(60), level) THEN 3
    ELSE IF NumLe(Num(40), level) THEN 2
    ELSE 1

\* a run as STUDY_WORKFLOW.create leaves it
NewStudyRun(sessionId, topic, duration) ==
    [sessionId |-> sessionId, topic |-> topic, duration |-> duration,
     pc |-> "initialize-session", startTime |-> <<>>, previousProgress |-> <<>>,
     learningPath |-> <<>>, summary |-> <<>>, aiOutcome |-> <<>>,
     masteryUpdate |-> <<>>, repetitionSchedule |-> <<>>, result |-> <<>>,
     wakeAt |-> <<>>, executed |-> <<>>, resumed |-> FALSE, cancelledIn |-> <<>>]

\* the names of the steps in the order run() awaits them
StudySteps ==
    <<"initialize-session", "load-progress", "generate-learning-path",
      "monitor-duration", "generate-summary", "update-mastery",
      "schedule-repetition", "finalize-workflow">>

\* an engine that keeps no step output
NeverCheckpointed(run) == FALSE

\* step.do and step.sleep under a name whose callback has already returned
\* (executed lists those): the engine returns the kept output instead of
\* running the callback
Checkpointed(run) == \E i \in 1..Len(run.executed) : run.executed[i] = run.pc

StartStudyRun(sessionId, topic, duration) ==
    /\ studyRuns' = Append(studyRuns, NewStudyRun(sessionId, topic, duration))
    /\ UNCHANGED <<now, userState, response, chatReqs, quizRuns, cache, durable, edge>>

\* Step 1
InitializeSession(r) ==
    /\ studyRuns[r].pc = "initialize-session"
    /\ ~Checkpointed(studyRuns[r])
    /\ studyRuns' = [studyRuns EXCEPT ![r] =
                        [@ EXCEPT !.pc = "load-progress",
                                  !.executed = Append(@, studyRuns[r].pc),
                                  !.startTime = <<now>>]]
    /\ UNCHANGED <<now, userState, response, chatReqs, quizRuns, cache, durable, edge>>

\* Step 2; an error body has no find, the step throws
LoadProgress(r, storeStatus) ==
    /\ studyRuns[r].pc = "load-progress"
    /\ ~Checkpointed(studyRuns[r])
    /\ IF storeStatus = 200
       THEN /\ GetTopicProgress
            /\ studyRuns' = [studyRuns EXCEPT ![r] =
                   [@ EXCEPT !.pc = "generate-learning-path",
                             !.executed = Append(@, studyRuns[r].pc),
                             !.previousProgress =
                                 PreviousProgress(topicsStudied, studyRuns[r].topic)]]
       ELSE /\ StoreFails("getTopicProgress")
            /\ studyRuns' = [studyRuns EXCEPT ![r] = [@ EXCEPT !.pc = "errored"]]
    /\ UNCHANGED <<chatReqs, quizRuns, cache, edge>>

\* Step 3
GenerateLearningPath(r) ==
    /\ studyRuns[r].pc = "generate-learning-path"
    /\ ~Checkpointed(studyRuns[r])
    /\ LET approach == Approach(studyRuns[r].previousProgress)
       IN  studyRuns' = [studyRuns EXCEPT ![r] =
               [@ EXCEPT !.pc = "monitor-duration",
                         !.executed = Append(@, studyRuns[r].pc),
                         !.learningPath =
                             [approach |-> approach,
                              suggestedDuration |-> studyRuns[r].duration,
                              focusAreas |-> FocusAreas(approach, studyRuns[r].topic)]]]
    /\ UNCHANGED <<now, userState, response, chatReqs, quizRuns, cache, durable, edge>>

\* Step 4: step.sleep for the session's duration; the run is suspended
\* until the wake time, which the engine keeps once the sleep has begun
MonitorDuration(r) ==
    /\ studyRuns[r].pc = "monitor-duration"
    /\ ~Checkpointed(studyRuns[r])
    /\ studyRuns' = [studyRuns EXCEPT ![r] =
           [@ EXCEPT !.pc = "sleeping",
                     !.wakeAt = IF @ = <<>>
                                THEN <<now + studyRuns[r].duration * SecondsPerMinute
                                                                   * MsPerSecond>>
                                ELSE @]]
    /\ UNCHANGED <<now, userState, response, chatReqs, quizRuns, cache, durable, edge>>

\* the wake time comes: the sleep has returned and the run goes on
WakeUp(r) ==
    /\ studyRuns[r].pc = "sleeping"
    /\ now' = IF now < studyRuns[r].wakeAt[1] THEN studyRuns[r].wakeAt[1] ELSE now
    /\ studyRuns' = [studyRuns EXCEPT ![r] =
           [@ EXCEPT !.pc = "generate-summary",
                     !.executed = Append(@, "monitor-duration")]]
    /\ UNCHANGED <<userState, response, chatReqs, quizRuns, cache, durable, edge>>

\* Step 5; the history is only counted, so an error body does not throw
GenerateSummary(r, storeStatus, outcome) ==
    /\ studyRuns[r].pc = "generate-summary"
    /\ ~Checkpointed(studyRuns[r])
    /\ IF storeStatus = 200 THEN GetChatHistory(studyRuns[r].sessionId)
       ELSE StoreFails("getChatHistory")
    /\ studyRuns' = [studyRuns EXCEPT ![r] =
           [@ EXCEPT !.pc = "update-mastery",
                     !.executed = Append(@, studyRuns[r].pc), !.aiOutcome = <<outcome>>,
                     !.summary = SummaryOf(outcome, studyRuns[r].duration,
                                           studyRuns[r].topic)]]
    /\ UNCHANGED <<chatReqs, quizRuns, cache, edge>>

\* update-mastery writing the new level into the topic's entry
UpdateMasteryStored(r) ==
    /\ studyRuns[r].pc = "update-mastery"
    /\ ~Checkpointed(studyRuns[r])
    /\ studyRuns' = [studyRuns EXCEPT ![r] =
           [@ EXCEPT !.pc = "schedule-repetition",
                     !.executed = Append(@, studyRuns[r].pc),
                     !.masteryUpdate = MasteryUpdate(studyRuns[r].previousProgress,
                                                     studyRuns[r].duration)]]
    /\ topicsStudied' =
           [i \in 1..Len(topicsStudied) |->
               IF topicsStudied[i].topic = studyRuns[r].topic
               THEN [topicsStudied[i] EXCEPT !.masteryLevel =
                        MasteryUpdate(studyRuns[r].previousProgress,
                                      studyRuns[r].duration).newLevel]
               ELSE topicsStudied[i]]
    /\ UNCHANGED <<now, sessions, chatHistories, spacedRepetitionQueue, quizzes,
                   quizResults, totalStudyTime, totalSessions, totalQuizzes,
                   averageScore, recentActivity, response, chatReqs, quizRuns, cache,
                   durable, edge>>

\* Step 6
UpdateMastery(r) ==
    /\ studyRuns[r].pc = "update-mastery"
    /\ ~Checkpointed(studyRuns[r])
    /\ studyRuns' = [studyRuns EXCEPT ![r] =
           [@ EXCEPT !.pc = "schedule-repetition",
                     !.executed = Append(@, studyRuns[r].pc),
                     !.masteryUpdate = MasteryUpdate(studyRuns[r].previousProgress,
                                                     studyRuns[r].duration)]]
    /\ UNCHANGED <<now, userState, response, chatReqs, quizRuns, cache, durable, edge>>

\* Step 7
ScheduleRepetition(r) ==
    /\ studyRuns[r].pc = "schedule-repetition"
    /\ ~Checkpointed(studyRuns[r])
    /\ LET level == studyRuns[r].masteryUpdate.newLevel
           intervalDays == IntervalDays(level)
       IN  studyRuns' = [studyRuns EXCEPT ![r] =
               [@ EXCEPT !.pc = "finalize-workflow",
                         !.executed = Append(@, studyRuns[r].pc),
                         !.repetitionSchedule =
                             [topic |-> studyRuns[r].topic,
                              nextReview |-> now + intervalDays * MsPerDay,
                              intervalDays |-> intervalDays,
                              masteryLevel |-> level]]]
    /\ UNCHANGED <<now, userState, response, chatReqs, quizRuns, cache, durable, edge>>

\* Step 8
FinalizeWorkflow(r) ==
    /\ studyRuns[r].pc = "finalize-workflow"
    /\ ~Checkpointed(studyRuns[r])
    /\ studyRuns' = [studyRuns EXCEPT ![r] =
           [@ EXCEPT !.pc = "done", !.executed = Append(@, studyRuns[r].pc),
                     !.result = [success |-> TRUE,
                                 sessionId |-> studyRuns[r].sessionId,
                                 summary |-> studyRuns[r].summary,
                                 masteryUpdate |-> studyRuns[r].masteryUpdate,
                                 repetitionSchedule |-> studyRuns[r].repetitionSchedule,
                                 learningPath |-> studyRuns[r].learningPath]]]
    /\ UNCHANGED <<now, userState, response, chatReqs, quizRuns, cache, durable, edge>>

\* the step that follows a step in run()
StepAfter(step) ==
    LET i == CHOOSE k \in 1..Len(StudySteps) : StudySteps[k] = step
    IN  IF i = Len(StudySteps) THEN "done" ELSE StudySteps[i + 1]

\* run() passes a step whose output the engine kept
ReplayStep(r) ==
    /\ \E k \in 1..Len(StudySteps) : StudySteps[k] = studyRuns[r].pc
    /\ Checkpointed(studyRuns[r])
    /\ studyRuns' = [studyRuns EXCEPT ![r] = [@ EXCEPT !.pc = StepAfter(studyRuns[r].pc)]]
    /\ UNCHANGED <<now, userState, response, chatReqs, quizRuns, cache, durable, edge>>

\* the instance fails between steps and the engine calls run() again
Restart(r) ==
    /\ studyRuns[r].pc \notin {"done", "errored", "cancelled"}
    /\ studyRuns' = [studyRuns EXCEPT ![r] =
           [@ EXCEPT !.pc = StudySteps[1], !.resumed = TRUE]]
    /\ UNCHANGED <<now, userState, response, chatReqs, quizRuns, cache, durable, edge>>

\* the instance is terminated: no step runs any more
Cancel(r) ==
    /\ studyRuns[r].pc \notin {"done", "errored", "cancelled"}
    /\ studyRuns' = [studyRuns EXCEPT ![r] =
           [@ EXCEPT !.pc = "cancelled", !.cancelledIn = <<studyRuns[r].pc>>]]
    /\ UNCHANGED <<now, userState, response, chatReqs, quizRuns, cache, durable, edge>>

\* the topic's entry in a store that has one: any whole mastery level, a
\* fractional one, and the NaN of a topic whose only quiz had no questions
StoredMasteryLevels == {Num(p) : p \in 0..100} \cup {Rat(185, 2), NaN}

StoredTopic(topic, level) ==
    [topic |-> topic, masteryLevel |-> level, timeSpent |-> 30, sessionsCount |-> 1,
     quizAverage |-> Num(0)]

\* the store after handleStudy created the session the run is started for:
\* without history, with history of the topic, or of another topic
InitStudy ==
    /\ now = 0
    /\ sessions = <<[id |-> "session1", topic |-> "Physics", startTime |-> 0,
                     endTime |-> <<>>, status |-> "active"]>>
    /\ quizzes = [q \in {} |-> NoQuestions]
    /\ quizResults = <<>>
    /\ totalStudyTime = 0
    /\ totalSessions = 1
    /\ totalQuizzes = 0
    /\ averageScore = Num(0)
    /\ topicsStudied \in {<<>>, <<StoredTopic("Calculus", Num(50))>>}
                         \cup {<<StoredTopic("Physics", level)>> :
                                   level \in StoredMasteryLevels}
    /\ recentActivity = <<[type |-> "session", topic |-> "Physics", timestamp |-> 0,
                           score |-> <<>>]>>
    /\ response = [op |-> "none", status |-> 0, result |-> <<>>]
    /\ chatHistories = [s \in {} |-> <<>>]
    /\ chatReqs = <<>>
    /\ quizRuns = <<>>
    /\ cache = [k \in {} |-> <<>>]
    /\ studyRuns = <<>>
    /\ spacedRepetitionQueue = <<>>
    /\ putRejects = FALSE
    /\ studyReqs = <<>>
    /\ apiResponse = NoReply
    /\ client = NewQuizPage
    /\ user = DefaultUser
    /\ parked = [u \in UserIds \ {DefaultUser} |-> NotLoaded]
    /\ storage = <<userState>>

DoStartStudyRun ==
    /\ studyRuns = <<>>
    /\ \E duration \in Durations : StartStudyRun("session1", "Physics", duration)

DoInitializeSession == \E r \in 1..Len(studyRuns) : InitializeSession(r)

DoLoadProgress ==
    \E r \in 1..Len(studyRuns), storeStatus \in StoreStatuses :
        LoadProgress(r, storeStatus)

DoGenerateLearningPath == \E r \in 1..Len(studyRuns) : GenerateLearningPath(r)

DoMonitorDuration == \E r \in 1..Len(studyRuns) : MonitorDuration(r)

DoWakeUp == \E r \in 1..Len(studyRuns) : WakeUp(r)

DoGenerateSummary ==
    \E r \in 1..Len(studyRuns), storeStatus \in StoreStatuses,
       outcome \in SummaryAiOutcomes :
        GenerateSummary(r, storeStatus, outcome)

DoUpdateMastery == \E r \in 1..Len(studyRuns) : UpdateMastery(r)

DoScheduleRepetition == \E r \in 1..Len(studyRuns) : ScheduleRepetition(r)

DoFinalizeWorkflow == \E r \in 1..Len(studyRuns) : FinalizeWorkflow(r)

NextStudy ==
    \/ DoStartStudyRun
    \/ DoInitializeSession
    \/ DoLoadProgress
    \/ DoGenerateLearningPath
    \/ DoMonitorDuration
    \/ DoWakeUp
    \/ DoGenerateSummary
    \/ DoUpdateMastery
    \/ DoScheduleRepetition
    \/ DoFinalizeWorkflow

\* one run of the study workflow over every stored mastery level and duration
SpecStudyWorkflow == InitStudy /\ [][NextStudy]_vars

----------------------------------------------------------------------------
(* Quiz questions: the codec of the quiz workflow and of AIService.         *)
(* A text is a sequence of tokens: words, blanks, commas, braces, and the   *)
(* members of a JSON object written between two braces.                     *)

Word(w) == [t |-> w, v |-> <<>>]
Blank == Word(" ")
Comma == Word(",")
LeftBrace == Word("{")
RightBrace == Word("}")
Prose == Word("prose")

\* an array value and a value that is no array, as JSON.parse yields them
Array(items) == [array |-> TRUE, items |-> items]
NotAnArray == [array |-> FALSE, items |-> <<>>]

\* the decodable members of one JSON object
Members(fields) == [t |-> "members", v |-> fields]

\* a topic name inside a text
TopicText(topic) == <<Word(topic)>>

\* c.trim() on tokens
RECURSIVE TrimText(_)
TrimText(s) ==
    IF s = <<>> THEN s
    ELSE IF Head(s) = Blank THEN TrimText(Tail(s))
    ELSE IF s[Len(s)] = Blank THEN TrimText(SubSeq(s, 1, Len(s) - 1))
    ELSE s

\* text.split(',')
RECURSIVE Split(_)
Split(text) ==
    IF \E i \in 1..Len(text) : text[i] = Comma
    THEN LET i == CHOOSE k \in 1..Len(text) :
                      text[k] = Comma /\ \A j \in 1..(k - 1) : text[j] # Comma
         IN  <<SubSeq(text, 1, i - 1)>> \o Split(SubSeq(text, i + 1, Len(text)))
    ELSE <<text>>

\* conceptsText.split(',').map(c => c.trim()).filter(c => c.length > 0)
ConceptsOf(text) ==
    LET pieces == Split(text)
        trimmed == [i \in 1..Len(pieces) |-> TrimText(pieces[i])]
        nonEmpty(c) == Len(c) > 0
    IN  SelectSeq(trimmed, nonEmpty)

\* the concepts of the catch branch of identify-concepts
TemplateConcepts(topic) ==
    << <<Word("Core"), Blank>> \o TopicText(topic) \o <<Blank, Word("concepts")>>,
       TopicText(topic) \o <<Blank, Word("fundamentals")>>,
       TopicText(topic) \o <<Blank, Word("applications")>> >>

\* content.match(/\{[\s\S]*\}/): from the first left brace to the last right
\* brace, or nothing
JsonMatch(content) ==
    LET lefts == {i \in 1..Len(content) : content[i] = LeftBrace}
        rights == {i \in 1..Len(content) : content[i] = RightBrace}
    IN  IF \E i \in lefts, j \in rights : i < j
        THEN LET first == CHOOSE i \in lefts : \A k \in lefts : i <= k
                 last == CHOOSE j \in rights : \A k \in rights : k <= j
             IN  <<SubSeq(content, first, last)>>
        ELSE <<>>

\* JSON.parse of a matched text: decodable when it is one object
JsonDecodable(text) ==
    \/ Len(text) = 2
    \/ Len(text) = 3 /\ text[2].t = "members"

JsonParse(text) == IF Len(text) = 2 THEN [f \in {} |-> NotAnArray] ELSE text[2].v

\* the outcome of AI.run: it throws, or answers with a response text
Throws == [throws |-> TRUE, response |-> <<>>]
Answers(text) == [throws |-> FALSE, response |-> text]

\* response.response || '{}', the match, the parse and the check of the
\* questions field: the list, or nothing when any of them fails
ParsedQuestions(reply) ==
    LET content == IF reply.response = <<>> THEN <<LeftBrace, RightBrace>>
                   ELSE reply.response
        match == JsonMatch(content)
    IN  IF reply.throws \/ match = <<>> THEN <<>>
        ELSE IF ~JsonDecodable(match[1]) THEN <<>>
        ELSE LET parsed == JsonParse(match[1])
             IN  IF "questions" \in DOMAIN parsed /\ parsed["questions"].array
                 THEN <<parsed["questions"].items>>
                 ELSE <<>>

\* `q${n}`
QIds == <<"q1", "q2", "q3", "q4", "q5", "q6">>
QId(n) == QIds[n]

\* the workflow's fallback stops at three questions
FallbackQuestionsOfThree(topic, count, concepts) ==
    [i \in 1..(IF count < 3 THEN count ELSE 3) |->
        LET concept == IF concepts = <<>> THEN TopicText(topic)
                       ELSE concepts[((i - 1) % Len(concepts)) + 1]
        IN  [id |-> QId(i),
             question |-> <<Word("Explain your understanding of"), Blank>> \o concept
                             \o <<Word(".")>>,
             type |-> "short-answer",
             correctAnswer |-> <<Word("Open-ended answer")>>,
             explanation |-> <<Word("This tests your understanding of"), Blank>> \o concept
                                \o <<Word(".")>>,
             points |-> 10]]

\* QuizGenerationWorkflow.getFallbackQuestions
FallbackQuestions(topic, count, concepts) ==
    [i \in 1..(IF count < 5 THEN count ELSE 5) |->
        LET concept == IF concepts = <<>> THEN TopicText(topic)
                       ELSE concepts[((i - 1) % Len(concepts)) + 1]
        IN  [id |-> QId(i),
             question |-> <<Word("Explain your understanding of"), Blank>> \o concept
                             \o <<Word(".")>>,
             type |-> "short-answer",
             correctAnswer |-> <<Word("Open-ended answer")>>,
             explanation |-> <<Word("This tests your understanding of"), Blank>> \o concept
                                \o <<Word(".")>>,
             points |-> 10]]

\* AIService.getFallbackQuestions
ServiceFallbackQuestions(topic, count) ==
    [i \in 1..(IF count < 3 THEN count ELSE 3) |->
        [id |-> QId(i),
         question |-> <<Word("What is a key concept in"), Blank>> \o TopicText(topic)
                         \o <<Word("?")>>,
         type |-> "short-answer",
         correctAnswer |-> <<Word("Various answers accepted")>>,
         explanation |-> <<Word("This question tests your understanding of"), Blank>>
                             \o TopicText(topic) \o <<Word(".")>>,
         points |-> 10]]

\* a candidate the validation keeps
HasRequiredFields(q) ==
    q.question # <<>> /\ q.correctAnswer # <<>> /\ q.explanation # <<>>

\* the validated form of a candidate, n validated questions before it
ValidatedQuestion(q, n) ==
    [id |-> IF q.id = "" THEN QId(n + 1) ELSE q.id,
     question |-> q.question,
     type |-> IF q.type = "" THEN "short-answer" ELSE q.type,
     correctAnswer |-> q.correctAnswer,
     explanation |-> q.explanation,
     points |-> IF q.points = 0 THEN 10 ELSE q.points]

\* the loop of validate-questions
RECURSIVE ValidateAll(_, _)
ValidateAll(candidates, validated) ==
    IF candidates = <<>> THEN validated
    ELSE IF ~HasRequiredFields(Head(candidates))
    THEN ValidateAll(Tail(candidates), validated)
    ELSE ValidateAll(Tail(candidates),
             Append(validated, ValidatedQuestion(Head(candidates), Len(validated))))

\* validation without the slice
ValidateQuestionsUncut(generated, questionCount) == ValidateAll(generated, <<>>)

\* validate-questions: validated.slice(0, questionCount)
ValidateQuestions(generated, questionCount) ==
    LET validated == ValidateAll(generated, <<>>)
    IN  SubSeq(validated, 1, IF Len(validated) < questionCount THEN Len(validated)
                             ELSE questionCount)

\* create-answer-key: a later question with the same id overwrites
AnswerKey(questions) ==
    [id \in {questions[i].id : i \in 1..Len(questions)} |->
        LET last == CHOOSE i \in 1..Len(questions) :
                        /\ questions[i].id = id
                        /\ \A j \in (i + 1)..Len(questions) : questions[j].id # id
        IN  questions[last].correctAnswer]

\* questions.reduce((sum, q) => sum + q.points, 0)
RECURSIVE TotalPoints(_)
TotalPoints(questions) ==
    IF questions = <<>> THEN 0
    ELSE TotalPoints(SubSeq(questions, 1, Len(questions) - 1))
         + questions[Len(questions)].points

----------------------------------------------------------------------------
(* Quiz Generation Workflow (QuizGenerationWorkflow.run): seven steps, each *)
(* one action, and the gateway's direct generation when the workflow cannot *)
(* be created.  A cached value is the JSON text of a list that JSON.parse   *)
(* produced, so reading it back yields the same list.                       *)

CacheTtlSeconds == 3600

\* `quiz:${topic}:${difficulty}:${questionCount}`
CacheKey(topic, difficulty, questionCount) == <<"quiz", topic, difficulty, questionCount>>

\* the cache is never read
CacheGetNever(key) == <<>>

\* CACHE.get: the value, or nothing when absent or expired
CacheGet(key) ==
    IF key \in DOMAIN cache /\ now < cache[key].expires THEN <<cache[key].value>>
    ELSE <<>>

\* CACHE.put with expirationTtl
CachePut(key, value) ==
    [k \in DOMAIN cache \cup {key} |->
        IF k = key THEN [value |-> value, expires |-> now + CacheTtlSeconds * MsPerSecond]
        ELSE cache[k]]

\* a run as QUIZ_WORKFLOW.create leaves it
NewQuizRun(topic, difficulty, questionCount) ==
    [via |-> "workflow", topic |-> topic, difficulty |-> difficulty,
     questionCount |-> questionCount, pc |-> "analyze-content",
     contentAnalysis |-> <<>>, keyConcepts |-> <<>>, generated |-> <<>>,
     source |-> "none", aiCalls |-> 0, aiFailures |-> {}, validated |-> <<>>,
     answerKey |-> <<>>, quizId |-> 0, saveStatus |-> 0, result |-> <<>>,
     lostSaves |-> 0]

\* the id of the quiz that generation r stores; ids are never reused
QuizIdOf(r) == r

\* workflow runs in one behaviour of SpecQuizCache
MaxQuizRuns == 2

\* saves whose Response is lost, per run
MaxLostSaves == 1

\* the id the next attempt of store-quiz makes: every execution of the step
\* makes a new `quiz_${Date.now()}_${random}`
NextQuizId(run, r) == QuizIdOf(r) + run.lostSaves * MaxQuizRuns

StartQuizRun(topic, difficulty, questionCount) ==
    /\ quizRuns' = Append(quizRuns, NewQuizRun(topic, difficulty, questionCount))
    /\ UNCHANGED <<now, userState, response, chatReqs, cache, studyRuns, durable, edge>>

\* Step 1; an error body has no find, the step throws
AnalyzeContent(r, storeStatus) ==
    /\ quizRuns[r].pc = "analyze-content"
    /\ IF storeStatus = 200
       THEN /\ GetTopicProgress
            /\ quizRuns' = [quizRuns EXCEPT ![r] =
                   [@ EXCEPT !.pc = "identify-concepts",
                             !.contentAnalysis =
                                 <<PreviousProgress(topicsStudied, quizRuns[r].topic)>>]]
       ELSE /\ StoreFails("getTopicProgress")
            /\ quizRuns' = [quizRuns EXCEPT ![r] = [@ EXCEPT !.pc = "errored"]]
    /\ UNCHANGED <<chatReqs, cache, studyRuns, edge>>

\* a failure of the generator in identify-concepts ends the run
ConceptsOrAbort(run, reply) ==
    IF reply.throws THEN [run EXCEPT !.pc = "errored", !.aiCalls = run.aiCalls + 1,
                                     !.aiFailures = run.aiFailures \cup {"identify-concepts"}]
    ELSE [run EXCEPT !.pc = "generate-questions", !.aiCalls = run.aiCalls + 1,
                     !.keyConcepts = ConceptsOf(reply.response)]

\* the run after identify-concepts, for an outcome of AI.run
ConceptsStep(run, reply) ==
    [run EXCEPT !.pc = "generate-questions",
                !.aiCalls = run.aiCalls + 1,
                !.aiFailures = IF reply.throws THEN run.aiFailures \cup {"identify-concepts"}
                               ELSE run.aiFailures,
                !.keyConcepts = IF reply.throws THEN TemplateConcepts(run.topic)
                                ELSE ConceptsOf(reply.response)]

\* Step 2
IdentifyConcepts(r, reply) ==
    /\ quizRuns[r].pc = "identify-concepts"
    /\ quizRuns' = [quizRuns EXCEPT ![r] = ConceptsStep(quizRuns[r], reply)]
    /\ UNCHANGED <<now, userState, response, chatReqs, cache, studyRuns, durable, edge>>

\* Step 3: the cached list, or the generator's list (cached for an hour), or
\* the fallback list (not cached)
GenerateQuestions(r, reply) ==
    LET run == quizRuns[r]
        key == CacheKey(run.topic, run.difficulty, run.questionCount)
        cached == CacheGet(key)
        parsed == ParsedQuestions(reply)
    IN  /\ run.pc = "generate-questions"
        /\ IF cached # <<>>
           THEN /\ cache' = cache
                /\ quizRuns' = [quizRuns EXCEPT ![r] =
                       [run EXCEPT !.pc = "validate-questions",
                                   !.source = "cache",
                                   !.generated = cached[1]]]
           ELSE IF parsed # <<>>
           THEN /\ cache' = CachePut(key, parsed[1])
                /\ quizRuns' = [quizRuns EXCEPT ![r] =
                       [run EXCEPT !.pc = "validate-questions",
                                   !.aiCalls = run.aiCalls + 1,
                                   !.source = "generator",
                                   !.generated = parsed[1]]]
           ELSE /\ cache' = cache
                /\ quizRuns' = [quizRuns EXCEPT ![r] =
                       [run EXCEPT !.pc = "validate-questions",
                                   !.aiCalls = run.aiCalls + 1,
                                   !.aiFailures = run.aiFailures \cup {"generate-questions"},
                                   !.source = "fallback",
                                   !.generated =
                                       FallbackQuestions(run.topic, run.questionCount,
                                                         run.keyConcepts)]]
        /\ UNCHANGED <<now, userState, response, chatReqs, studyRuns, durable, edge>>

\* Step 4
ValidateStep(r) ==
    /\ quizRuns[r].pc = "validate-questions"
    /\ quizRuns' = [quizRuns EXCEPT ![r] =
           [@ EXCEPT !.pc = "create-answer-key",
                     !.validated = ValidateQuestions(quizRuns[r].generated,
                                                     quizRuns[r].questionCount)]]
    /\ UNCHANGED <<now, userState, response, chatReqs, cache, studyRuns, durable, edge>>

\* Step 5
CreateAnswerKey(r) ==
    /\ quizRuns[r].pc = "create-answer-key"
    /\ quizRuns' = [quizRuns EXCEPT ![r] =
           [@ EXCEPT !.pc = "store-quiz",
                     !.answerKey = AnswerKey(quizRuns[r].validated)]]
    /\ UNCHANGED <<now, userState, response, chatReqs, cache, studyRuns, durable, edge>>

\* POST /quiz/save when storage.put rejects: the answer is 500; the quiz is
\* in the object's memory only if the object outlives the failure
SaveQuizFails(id, topic, questions) ==
    /\ \/ quizzes' = quizzes
       \/ quizzes' = [q \in DOMAIN quizzes \cup {id} |->
                         IF q = id
                         THEN [id |-> id, topic |-> topic, questions |-> questions]
                         ELSE quizzes[q]]
    /\ response' = [op |-> "saveQuiz", status |-> 500, result |-> <<>>]
    /\ UNCHANGED <<now, sessions, chatHistories, spacedRepetitionQueue, quizResults,
                   progress, durable>>

\* the run after store-quiz: the Response of the store is not looked at
StoredStep(run, r, storeStatus) ==
    [run EXCEPT !.pc = "finalize-quiz", !.quizId = NextQuizId(run, r),
                !.saveStatus = storeStatus]

\* Step 6
StoreQuiz(r, storeStatus) ==
    /\ quizRuns[r].pc = "store-quiz"
    /\ IF storeStatus = 200
       THEN SaveQuiz(NextQuizId(quizRuns[r], r), quizRuns[r].topic,
                     quizRuns[r].validated)
       ELSE SaveQuizFails(NextQuizId(quizRuns[r], r), quizRuns[r].topic,
                          quizRuns[r].validated)
    /\ quizRuns' = [quizRuns EXCEPT ![r] = StoredStep(quizRuns[r], r, storeStatus)]
    /\ UNCHANGED <<chatReqs, cache, studyRuns, edge>>

\* Step 6 when the save reaches the store and the step fails before it
\* returns (the Response does not arrive): nothing is kept of the attempt,
\* and the engine runs the step again
StoreQuizLost(r) ==
    /\ quizRuns[r].pc = "store-quiz"
    /\ quizRuns[r].lostSaves < MaxLostSaves
    /\ SaveQuiz(NextQuizId(quizRuns[r], r), quizRuns[r].topic, quizRuns[r].validated)
    /\ quizRuns' = [quizRuns EXCEPT ![r] = [@ EXCEPT !.lostSaves = @ + 1]]
    /\ UNCHANGED <<chatReqs, cache, studyRuns, edge>>

\* Step 7
FinalizeQuiz(r) ==
    /\ quizRuns[r].pc = "finalize-quiz"
    /\ quizRuns' = [quizRuns EXCEPT ![r] =
           [@ EXCEPT !.pc = "done",
                     !.result =
                         [success |-> TRUE,
                          quizId |-> quizRuns[r].quizId,
                          quiz |-> [id |-> quizRuns[r].quizId,
                                    topic |-> quizRuns[r].topic,
                                    difficulty |-> quizRuns[r].difficulty,
                                    questions |-> quizRuns[r].validated,
                                    totalPoints |-> TotalPoints(quizRuns[r].validated),
                                    estimatedTime |-> Len(quizRuns[r].validated) * 2],
                          answerKey |-> quizRuns[r].answerKey,
                          keyConcepts |-> quizRuns[r].keyConcepts]]]
    /\ UNCHANGED <<now, userState, response, chatReqs, cache, studyRuns, durable, edge>>

\* AIService.generateQuiz: the generator's list, or the service's fallback
ServiceQuestions(topic, questionCount, reply) ==
    LET parsed == ParsedQuestions(reply)
    IN  IF parsed # <<>> THEN parsed[1]
        ELSE ServiceFallbackQuestions(topic, questionCount)

\* POST /api/quiz/generate when QUIZ_WORKFLOW.create throws: the gateway
\* generates the questions itself and stores them as they are
GenerateQuizDirectly(topic, difficulty, questionCount, reply, storeStatus) ==
    LET r == Len(quizRuns) + 1
        questions == ServiceQuestions(topic, questionCount, reply)
    IN  /\ IF storeStatus = 200 THEN SaveQuiz(QuizIdOf(r), topic, questions)
           ELSE SaveQuizFails(QuizIdOf(r), topic, questions)
        /\ quizRuns' = Append(quizRuns,
               [NewQuizRun(topic, difficulty, questionCount) EXCEPT
                    !.via = "gateway", !.pc = "done", !.aiCalls = 1,
                    !.aiFailures = IF ParsedQuestions(reply) = <<>>
                                   THEN {"generate-questions"} ELSE {},
                    !.source = IF ParsedQuestions(reply) = <<>> THEN "fallback"
                               ELSE "generator",
                    !.generated = questions, !.quizId = QuizIdOf(r),
                    !.saveStatus = storeStatus,
                    !.result = [quizId |-> QuizIdOf(r), questions |-> questions,
                                totalPoints |-> TotalPoints(questions)]])
        /\ UNCHANGED <<chatReqs, cache, studyRuns, edge>>

----------------------------------------------------------------------------
(* Inputs and specifications of the quiz generations *)

\* a candidate question as the generator may write it; a missing field is
\* the empty text, the empty string or 0
Candidate(id, n, answer, explanation, type, points) ==
    [id |-> id, question |-> <<Word("Question"), Word(QId(n))>>,
     correctAnswer |-> answer, explanation |-> explanation, type |-> type,
     points |-> points]

True == <<Word("True")>>
Because == <<Word("Because")>>

\* one complete question, as in the prompt's example
OneQuestion == << Candidate("q1", 1, True, Because, "true-false", 10) >>

\* a question without explanation, then three usable ones, two without id
FourCandidates ==
    << Candidate("q1", 1, True, <<>>, "true-false", 10),
       Candidate("", 2, True, Because, "", 0),
       Candidate("", 3, True, Because, "multiple-choice", 15),
       Candidate("q4", 4, True, Because, "true-false", 20) >>

\* a question with its own id q2, then one without id
OwnIdThenNone ==
    << Candidate("q2", 1, True, Because, "true-false", 10),
       Candidate("", 2, <<Word("False")>>, Because, "true-false", 10) >>

CandidateLists == {<<>>, OneQuestion, FourCandidates, OwnIdThenNone}

\* a reply with the object embedded in prose
Embedded(fields) == Answers(<<Prose, LeftBrace, Members(fields), RightBrace, Prose>>)

\* replies that yield no question list: the generator throws, answers
\* nothing, writes no object, writes an undecodable one, one without a
\* questions field, or one whose questions field is no array
FailingReplies ==
    {Throws, Answers(<<>>), Answers(<<Prose>>),
     Answers(<<Prose, LeftBrace, Prose, RightBrace>>),
     Embedded([quiz |-> Array(OneQuestion)]),
     Embedded([questions |-> NotAnArray])}

QuestionReplies ==
    FailingReplies \cup {Embedded([questions |-> Array(list)]) : list \in CandidateLists}

\* the generator throws, answers nothing, or lists two concepts
ConceptReplies ==
    {Throws, Answers(<<>>),
     Answers(<<Word("limits"), Comma, Blank, Word("rates"), Comma, Blank>>)}

\* question counts the gateway accepts (1 to 20)
QuestionCounts == {1, 2, 6}

NothingStarted == quizRuns = <<>> /\ studyRuns = <<>>

WfStartQuizRun ==
    /\ NothingStarted
    /\ \E questionCount \in QuestionCounts :
           StartQuizRun("Physics", "beginner", questionCount)

WfGenerateQuizDirectly ==
    /\ NothingStarted
    /\ \E questionCount \in QuestionCounts, reply \in QuestionReplies,
          storeStatus \in StoreStatuses :
           GenerateQuizDirectly("Physics", "beginner", questionCount, reply, storeStatus)

WfStartStudyRun ==
    /\ NothingStarted
    /\ \E duration \in {MinDuration, 30, MaxDuration} :
           StartStudyRun("session1", "Physics", duration)

DoAnalyzeContent ==
    \E r \in 1..Len(quizRuns), storeStatus \in StoreStatuses :
        AnalyzeContent(r, storeStatus)

DoIdentifyConcepts ==
    \E r \in 1..Len(quizRuns), reply \in ConceptReplies : IdentifyConcepts(r, reply)

DoGenerateQuestions ==
    \E r \in 1..Len(quizRuns), reply \in QuestionReplies : GenerateQuestions(r, reply)

DoValidateStep == \E r \in 1..Len(quizRuns) : ValidateStep(r)

DoCreateAnswerKey == \E r \in 1..Len(quizRuns) : CreateAnswerKey(r)

DoStoreQuiz ==
    \E r \in 1..Len(quizRuns), storeStatus \in StoreStatuses : StoreQuiz(r, storeStatus)

DoFinalizeQuiz == \E r \in 1..Len(quizRuns) : FinalizeQuiz(r)

NextWorkflows ==
    \/ WfStartQuizRun
    \/ WfGenerateQuizDirectly
    \/ WfStartStudyRun
    \/ DoAnalyzeContent
    \/ DoIdentifyConcepts
    \/ DoGenerateQuestions
    \/ DoValidateStep
    \/ DoCreateAnswerKey
    \/ DoStoreQuiz
    \/ DoFinalizeQuiz
    \/ DoInitializeSession
    \/ DoLoadProgress
    \/ DoGenerateLearningPath
    \/ DoMonitorDuration
    \/ DoWakeUp
    \/ DoGenerateSummary
    \/ DoUpdateMastery
    \/ DoScheduleRepetition
    \/ DoFinalizeWorkflow

\* one generation of a quiz, by the workflow or by the gateway, or one run of
\* the study workflow, over every kind of generator reply
SpecWorkflows == Init /\ [][NextWorkflows]_vars


HalfHourMinutes == 30

\* half an hour passes, until one cache lifetime has gone by
CacheTick ==
    /\ now < CacheTtlSeconds * MsPerSecond
    /\ now' = now + HalfHourMinutes * SecondsPerMinute * MsPerSecond
    /\ UNCHANGED <<userState, response, clients, durable>>

CacheStartQuizRun ==
    /\ Len(quizRuns) < MaxQuizRuns
    /\ \E questionCount \in {2, 6} : StartQuizRun("Physics", "beginner", questionCount)

CacheAnalyzeContent == \E r \in 1..Len(quizRuns) : AnalyzeContent(r, 200)

CacheIdentifyConcepts ==
    \E r \in 1..Len(quizRuns) :
        IdentifyConcepts(r, Answers(<<Word("limits"), Comma, Blank, Word("rates")>>))

CacheGenerateQuestions ==
    \E r \in 1..Len(quizRuns),
       reply \in {Throws, Embedded([questions |-> Array(FourCandidates)])} :
        GenerateQuestions(r, reply)

CacheStoreQuiz == \E r \in 1..Len(quizRuns) : StoreQuiz(r, 200)

NextQuizCache ==
    \/ CacheTick
    \/ CacheStartQuizRun
    \/ CacheAnalyzeContent
    \/ CacheIdentifyConcepts
    \/ CacheGenerateQuestions
    \/ DoValidateStep
    \/ DoCreateAnswerKey
    \/ CacheStoreQuiz
    \/ DoFinalizeQuiz

\* concurrent runs of the quiz workflow sharing the cache, under a clock
SpecQuizCache == Init /\ [][NextQuizCache]_vars

----------------------------------------------------------------------------
(* The current session.  sessions is kept in insertion order, which is the *)
(* order Object.values gives for the gateway's session_... ids.            *)

IsActive(s) == s.status = "active"

\* the first of the active sessions
FirstActiveSession(ss) ==
    LET activeSessions == SelectSeq(ss, IsActive)
    IN  IF activeSessions = <<>> THEN <<>> ELSE <<activeSessions[1]>>

\* activeSessions[activeSessions.length - 1] || null; null is <<>>
CurrentSession(ss) ==
    LET activeSessions == SelectSeq(ss, IsActive)
    IN  IF activeSessions = <<>> THEN <<>>
        ELSE <<activeSessions[Len(activeSessions)]>>

\* GET /session/current
GetCurrentSession ==
    /\ response' = [op |-> "getCurrentSession", status |-> 200,
                    result |-> CurrentSession(sessions)]
    /\ UNCHANGED <<now, userState, durable>>

DoGetCurrentSession == GetCurrentSession /\ UNCHANGED clients

NextSessions == DoCreateSession \/ DoCompleteSession \/ DoGetCurrentSession

\* sessions created, completed and completed again, and the current one read
SpecSessions == Init /\ [][NextSessions]_vars

----------------------------------------------------------------------------
(* The API gateway: POST /api/study/start and POST /api/quiz/submit.  A    *)
(* study request is in flight between the gateway's Date.now() and the     *)
(* store's handling of /session/create, and again until the workflow is    *)
(* created; requests of other clients and the clock go on meanwhile.       *)

MaxGatewayOps == 4

BadRequest == 400

\* the session the gateway builds, and where its request stands
NewStudyRequest(id, topic, duration, startTime) ==
    [id |-> id, topic |-> topic, duration |-> duration, startTime |-> startTime,
     pc |-> "create-session"]

\* handleStudy up to the call of the store: validation, a fresh session id,
\* startTime = Date.now()
HandleStudy(topic, duration) ==
    /\ IF topic = "" \/ duration < MinDuration \/ duration > MaxDuration
       THEN /\ apiResponse' = [op |-> "startStudy", status |-> BadRequest, body |-> <<>>]
            /\ UNCHANGED studyReqs
       ELSE /\ studyReqs' = Append(studyReqs,
                                   NewStudyRequest(Len(studyReqs) + 1, topic, duration, now))
            /\ UNCHANGED apiResponse
    /\ UNCHANGED <<now, userState, response, durable, chatReqs, quizRuns, cache,
                   studyRuns, client, user, parked>>

\* the store handles the request's /session/create; its Response is not
\* looked at
StudyCreatesSession(r) ==
    /\ studyReqs[r].pc = "create-session"
    /\ CreateSession(studyReqs[r].id, studyReqs[r].topic, studyReqs[r].startTime)
    /\ studyReqs' = [studyReqs EXCEPT ![r] = [@ EXCEPT !.pc = "start-workflow"]]
    /\ UNCHANGED <<chatReqs, quizRuns, cache, studyRuns, apiResponse, client, user,
                   parked>>

\* STUDY_WORKFLOW.create succeeds or throws; the session is returned either way
StudyStartsWorkflow(r, created) ==
    /\ studyReqs[r].pc = "start-workflow"
    /\ studyRuns' = IF created
                    THEN Append(studyRuns, NewStudyRun(studyReqs[r].id, studyReqs[r].topic,
                                                       studyReqs[r].duration))
                    ELSE studyRuns
    /\ studyReqs' = [studyReqs EXCEPT ![r] = [@ EXCEPT !.pc = "done"]]
    /\ apiResponse' = [op |-> "startStudy", status |-> 200,
                       body |-> [session |-> studyReqs[r].id,
                                 workflowId |-> IF created THEN <<Len(studyRuns) + 1>>
                                                ELSE <<>>]]
    /\ UNCHANGED <<now, userState, response, durable, chatReqs, quizRuns, cache,
                   client, user, parked>>

\* POST /api/quiz/submit: the store's JSON body in a Response of status 200
HandleQuizSubmit(quizId, answers) ==
    /\ IF quizId = NoQuizId
       THEN /\ apiResponse' = [op |-> "submitQuiz", status |-> BadRequest, body |-> <<>>]
            /\ UNCHANGED <<now, userState, response, durable>>
       ELSE /\ SubmitQuiz(quizId, answers)
            /\ apiResponse' = [op |-> "submitQuiz", status |-> 200,
                               body |-> response'.result]
    /\ UNCHANGED <<chatReqs, quizRuns, cache, studyRuns, studyReqs, client, user,
                   parked>>

\* requests accepted, quizzes, results and minutes so far
GatewayOps ==
    Len(studyReqs) + Cardinality(DOMAIN quizzes) + Len(quizResults)
    + now \div (MsPerSecond * SecondsPerMinute)

GwTick == GatewayOps < MaxGatewayOps /\ Tick /\ UNCHANGED clients

GwHandleStudy ==
    /\ GatewayOps < MaxGatewayOps
    /\ \E topic \in {"", "Physics"}, duration \in {MinDuration - 1, 30} :
           HandleStudy(topic, duration)

GwStudyCreatesSession == \E r \in 1..Len(studyReqs) : StudyCreatesSession(r)

GwStudyStartsWorkflow ==
    \E r \in 1..Len(studyReqs), created \in BOOLEAN : StudyStartsWorkflow(r, created)

\* a quiz generation saves its quiz
GwSaveQuiz ==
    /\ GatewayOps < MaxGatewayOps
    /\ \E questions \in {TwoQuestions} :
           SaveQuiz(Cardinality(DOMAIN quizzes) + 1, "Physics", questions)
    /\ UNCHANGED clients

\* no id, the ids of the stored quizzes and one unknown id
GwHandleQuizSubmit ==
    /\ GatewayOps < MaxGatewayOps
    /\ \E quizId \in 0..(Cardinality(DOMAIN quizzes) + 1), answers \in {NoAnswers} :
           HandleQuizSubmit(quizId, answers)

NextGateway ==
    \/ GwTick
    \/ GwHandleStudy
    \/ GwStudyCreatesSession
    \/ GwStudyStartsWorkflow
    \/ GwSaveQuiz
    \/ GwHandleQuizSubmit

SpecGateway == Init /\ [][NextGateway]_vars

----------------------------------------------------------------------------
(* The quiz page of the frontend and its API client.  The page's request   *)
(* to POST /api/quiz/generate is what starts a run (or the gateway's own   *)
(* generation); the client does not read the Response.                     *)

MockDelayMs == 3000

\* `quiz_${Date.now()}`: an id without the random part, which no quiz of
\* the workflow or the gateway has; such ids are the negative numbers
MockQuizId(t) == 0 - t

\* apiClient.generateQuiz after its request: three seconds later it returns
\* mock data, and the page keeps the mock quizId
PageReceivesQuiz ==
    /\ quizRuns # <<>>
    /\ client.quizId = NoQuizId
    /\ now' = now + MockDelayMs
    /\ client' = [client EXCEPT !.quizId = MockQuizId(now')]
    /\ UNCHANGED <<userState, response, durable, chatReqs, quizRuns, cache, studyRuns,
                   studyReqs, apiResponse, user, parked>>

\* the page's submitQuiz: POST /api/quiz/submit with the quizId it keeps
PageSubmitsQuiz(answers) ==
    /\ client.quizId # NoQuizId
    /\ HandleQuizSubmit(client.quizId, answers)

PgStartQuizRun == studyRuns = <<>> /\ WfStartQuizRun

PgGenerateQuizDirectly == studyRuns = <<>> /\ WfGenerateQuizDirectly

PgPageSubmitsQuiz == \E answers \in {NoAnswers} : PageSubmitsQuiz(answers)

NextQuizPage ==
    \/ PgStartQuizRun
    \/ PgGenerateQuizDirectly
    \/ DoAnalyzeContent
    \/ DoIdentifyConcepts
    \/ DoGenerateQuestions
    \/ DoValidateStep
    \/ DoCreateAnswerKey
    \/ DoStoreQuiz
    \/ DoFinalizeQuiz
    \/ PageReceivesQuiz
    \/ PgPageSubmitsQuiz

\* one quiz generated for the page, by the workflow or by the gateway, and
\* submitted
SpecQuizPage == Init /\ [][NextQuizPage]_vars

----------------------------------------------------------------------------
(* Durable storage.  Every mutating handler changes this.userState and     *)
(* then awaits storage.put; the put can reject, and the object can be      *)
(* evicted from memory, after which the next fetch loads what was put.     *)

\* storage.put starts or stops rejecting
StorageFault ==
    /\ putRejects' = ~putRejects
    /\ UNCHANGED <<now, userState, response, storage>>

\* storage.get('userState') || createDefaultState()
LoadedState == IF storage = <<>> THEN DefaultState ELSE storage[1]

\* the object leaves memory; the state the next fetch will load
Evict ==
    /\ sessions' = LoadedState[1]
    /\ chatHistories' = LoadedState[2]
    /\ quizzes' = LoadedState[3]
    /\ quizResults' = LoadedState[4]
    /\ totalStudyTime' = LoadedState[5][1]
    /\ totalSessions' = LoadedState[5][2]
    /\ totalQuizzes' = LoadedState[5][3]
    /\ averageScore' = LoadedState[5][4]
    /\ topicsStudied' = LoadedState[5][5]
    /\ recentActivity' = LoadedState[5][6]
    /\ spacedRepetitionQueue' = LoadedState[6]
    /\ UNCHANGED <<now, response, durable>>

DuStorageFault == StorageFault /\ UNCHANGED clients

DuEvict == Evict /\ UNCHANGED clients

NextDurable ==
    \/ DuStorageFault
    \/ DuEvict
    \/ DoCreateSession
    \/ DoCompleteSession
    \/ DoGetCurrentSession

\* sessions created, completed and read while puts reject now and then and
\* the object is evicted now and then
SpecDurable == Init /\ [][NextDurable]_vars

----------------------------------------------------------------------------
(* Users.  env.STUDY_STATE.idFromName(userId) names one StudyState         *)
(* instance per user id.  The store variables show the instance of `user`; *)
(* parked keeps the memory and the storage of the other instances.         *)

MaxUserOps == 2

\* the stub of another user id pointing at the instance in view
GetStubShared(userId) ==
    /\ userId # user
    /\ user' = userId
    /\ parked' = [u \in UserIds \ {userId} |->
                     IF u = user THEN <<userState, storage>> ELSE parked[u]]
    /\ UNCHANGED <<now, userState, response, durable>>

\* idFromName(userId) and get(id) for another user id: that user's instance
\* comes into view, the one in view is parked
GetStub(userId) ==
    /\ userId # user
    /\ user' = userId
    /\ parked' = [u \in UserIds \ {userId} |->
                     IF u = user THEN <<userState, storage>> ELSE parked[u]]
    /\ sessions' = parked[userId][1][1]
    /\ chatHistories' = parked[userId][1][2]
    /\ quizzes' = parked[userId][1][3]
    /\ quizResults' = parked[userId][1][4]
    /\ totalStudyTime' = parked[userId][1][5][1]
    /\ totalSessions' = parked[userId][1][5][2]
    /\ totalQuizzes' = parked[userId][1][5][3]
    /\ averageScore' = parked[userId][1][5][4]
    /\ topicsStudied' = parked[userId][1][5][5]
    /\ recentActivity' = parked[userId][1][5][6]
    /\ spacedRepetitionQueue' = parked[userId][1][6]
    /\ storage' = parked[userId][2]
    /\ UNCHANGED <<now, response, putRejects>>

UsGetStub ==
    /\ \E userId \in UserIds : GetStub(userId)
    /\ UNCHANGED <<chatReqs, quizRuns, cache, studyRuns, studyReqs, apiResponse, client>>

UsFrame == UNCHANGED clients

UsTick == now < MaxUserOps * MsPerSecond * SecondsPerMinute /\ Tick /\ UsFrame

UsCreateSession ==
    /\ Ops < MaxUserOps
    /\ \E topic \in Topics : CreateSession(Len(sessions) + 1, topic, now)
    /\ UsFrame

UsCompleteSession ==
    /\ Ops < MaxUserOps
    /\ \E sessionId \in 1..(Len(sessions) + 1) : CompleteSession(sessionId)
    /\ UsFrame

UsSaveQuiz ==
    /\ Ops < MaxUserOps
    /\ SaveQuiz(Cardinality(DOMAIN quizzes) + 1, "Physics", TwoQuestions)
    /\ UsFrame

UsSubmitQuiz ==
    /\ Ops < MaxUserOps
    /\ \E quizId \in 1..(Cardinality(DOMAIN quizzes) + 1) : SubmitQuiz(quizId, NoAnswers)
    /\ UsFrame

NextUsers ==
    \/ UsGetStub
    \/ UsTick
    \/ UsCreateSession
    \/ UsCompleteSession
    \/ UsSaveQuiz
    \/ UsSubmitQuiz

\* two user ids whose requests interleave
SpecUsers == Init /\ [][NextUsers]_vars

----------------------------------------------------------------------------
(* One run of the study workflow under the engine: it may fail between     *)
(* steps and be resumed, and it may be terminated.                         *)

InitStudyEngine == InitStudy /\ topicsStudied = <<>>

EngStartStudyRun ==
    /\ studyRuns = <<>>
    /\ StartStudyRun("session1", "Physics", MinDuration)

EngReplayStep == \E r \in 1..Len(studyRuns) : ReplayStep(r)

EngRestart == \E r \in 1..Len(studyRuns) : Restart(r)

EngCancel == \E r \in 1..Len(studyRuns) : Cancel(r)

NextStudyEngine ==
    \/ EngStartStudyRun
    \/ DoInitializeSession
    \/ DoLoadProgress
    \/ DoGenerateLearningPath
    \/ DoMonitorDuration
    \/ DoWakeUp
    \/ DoGenerateSummary
    \/ DoUpdateMastery
    \/ DoScheduleRepetition
    \/ DoFinalizeWorkflow
    \/ EngReplayStep
    \/ EngRestart
    \/ EngCancel

SpecStudyEngine == InitStudyEngine /\ [][NextStudyEngine]_vars

----------------------------------------------------------------------------
(* One run of the quiz workflow whose store-quiz step may fail after the   *)
(* store has saved the quiz, and is then run again by the engine.          *)

RtStoreQuizLost == \E r \in 1..Len(quizRuns) : StoreQuizLost(r)

NextQuizRetry ==
    \/ WfStartQuizRun
    \/ DoAnalyzeContent
    \/ DoIdentifyConcepts
    \/ DoGenerateQuestions
    \/ DoValidateStep
    \/ DoCreateAnswerKey
    \/ DoStoreQuiz
    \/ RtStoreQuizLost
    \/ DoFinalizeQuiz

SpecQuizRetry == Init /\ [][NextQuizRetry]_vars

----------------------------------------------------------------------------
(* Vocabulary of the properties *)

OneMinute == MsPerSecond * SecondsPerMinute

HasTopic(ts, topic) == \E i \in 1..Len(ts) : ts[i].topic = topic

EntryOf(ts, topic) == ts[CHOOSE i \in 1..Len(ts) : ts[i].topic = topic]

\* the last operation was a submitQuiz that stored a result
SubmitSucceeded == response.op = "submitQuiz" /\ response.status = 200

\* this step is a submitQuiz that stored a result
SubmitStep ==
    /\ totalQuizzes' # totalQuizzes
    /\ response'.op = "submitQuiz"
    /\ response'.status = 200

CompletedOn(topic) ==
    {j \in 1..Len(sessions) : sessions[j].topic = topic /\ sessions[j].status = "completed"}

\* minutes between startTime and endTime, summed over the completed sessions
RECURSIVE CompletedMinutes(_)
CompletedMinutes(ss) ==
    IF ss = <<>> THEN 0
    ELSE (IF Head(ss).status = "completed"
          THEN (Head(ss).endTime[1] - Head(ss).startTime) \div OneMinute
          ELSE 0)
         + CompletedMinutes(Tail(ss))

RECURSIVE PercentSum(_)
PercentSum(rs) ==
    IF rs = <<>> THEN Num(0)
    ELSE NumAdd(Head(rs).percentage, PercentSum(Tail(rs)))

\* the mean percentage of a non-empty list of results
MeanPercentage(rs) == NumDiv(PercentSum(rs), Num(Len(rs)))

\* the stored results whose quiz has the topic, in stored order
TopicResults(topic) ==
    LET mine(r) == r.quizId \in DOMAIN quizzes /\ quizzes[r.quizId].topic = topic
    IN  SelectSeq(quizResults, mine)

\* two letters that differ at most in case
SameLetter(x, y) ==
    \/ x = y
    \/ \E k \in 1..Len(UpperLetters) :
           {x, y} = {UpperLetters[k], LowerLetters[k]}

SameIgnoringCase(a, b) ==
    /\ Len(a) = Len(b)
    /\ \A i \in 1..Len(a) : SameLetter(a[i], b[i])

\* the questions (by position) answered correctly, ignoring letter case
CorrectlyAnswered(questions, answers) ==
    {i \in 1..Len(questions) :
        /\ questions[i].id \in DOMAIN answers
        /\ SameIgnoringCase(answers[questions[i].id], questions[i].correctAnswer)}

RECURSIVE PointsOf(_, _)
PointsOf(questions, positions) ==
    IF positions = {} THEN 0
    ELSE LET i == CHOOSE j \in positions : TRUE
         IN  questions[i].points + PointsOf(questions, positions \ {i})

ScenarioAnswers == [q \in {"q1", "q2"} |-> IF q = "q1" THEN StrLowerA ELSE StrFalse]

----------------------------------------------------------------------------
(* C1: progress.recentActivity holds at most 50 entries in every state     *)
(* reachable by createSession and submitQuiz.  The statement as claimed;   *)
(* submitQuiz prepends without truncating, so the 51st entry refutes it.   *)
C1_RecentActivityAtMost50 == Len(recentActivity) <= RecentActivityCap

(* C2, as claimed: no step lowers the masteryLevel of a topic.  Refuted by *)
(* a submitQuiz whose result lowers the topic's quizAverage.               *)
C2_MasteryNeverDecreases ==
    [][\A topic \in Topics :
          HasTopic(topicsStudied, topic) =>
              ~NumLt(EntryOf(topicsStudied', topic).masteryLevel,
                     EntryOf(topicsStudied, topic).masteryLevel)]_vars

(* C2, amended: a completeSession never lowers the masteryLevel of any     *)
(* topic that already has a TopicProgress entry.                           *)
C2_MasteryNotLoweredByCompleteSession ==
    [][response'.op = "completeSession" =>
          \A topic \in Topics :
              HasTopic(topicsStudied, topic) =>
                  /\ HasTopic(topicsStudied', topic)
                  /\ ~NumLt(EntryOf(topicsStudied', topic).masteryLevel,
                            EntryOf(topicsStudied, topic).masteryLevel)]_vars

\* a completeSession has just raised a topic that carries a quiz average
C2_Witness ==
    /\ response.op = "completeSession"
    /\ \E i \in 1..Len(topicsStudied) :
           /\ topicsStudied[i].sessionsCount >= 2
           /\ NumLt(Num(0), topicsStudied[i].quizAverage)

(* C3, as claimed: each topic's sessionsCount equals the number of stored  *)
(* sessions of that topic whose status is completed.  Refuted by           *)
(* completing the same session twice.                                      *)
C3_SessionsCountIsCompletedSessions ==
    \A i \in 1..Len(topicsStudied) :
        topicsStudied[i].sessionsCount = Cardinality(CompletedOn(topicsStudied[i].topic))

(* C4, as claimed: totalStudyTime equals the sum of (endTime - startTime)  *)
(* in minutes over the completed sessions.  Refuted by completing the same *)
(* session twice.                                                          *)
C4_TotalStudyTimeIsSumOfDurations == totalStudyTime = CompletedMinutes(sessions)

(* C5, as claimed: the quizAverage of every TopicProgress entry equals the *)
(* mean percentage of the stored results of that topic's quizzes, 0 when   *)
(* there are none.  Stated for the topics whose results all have a finite  *)
(* percentage, so that what refutes it is the order of operations alone:   *)
(* a quiz submitted before the first session of its topic is completed.    *)
C5_QuizAverageIsTopicMean ==
    \A i \in 1..Len(topicsStudied) :
        LET mine == TopicResults(topicsStudied[i].topic)
        IN  (\A k \in 1..Len(mine) : IsFinite(mine[k].percentage)) =>
                topicsStudied[i].quizAverage =
                    (IF mine = <<>> THEN Num(0) ELSE MeanPercentage(mine))

(* C6, as claimed: every masteryLevel lies in 0..100 and equals            *)
(* min(100, sessionsCount*10 + quizAverage*0.5).  Refuted by a quiz with   *)
(* no questions, whose percentage 0/0 is NaN.                              *)
C6_MasteryInRangeAndByFormula ==
    \A i \in 1..Len(topicsStudied) :
        LET t == topicsStudied[i]
        IN  /\ NumLe(Num(0), t.masteryLevel)
            /\ NumLe(t.masteryLevel, Num(MasteryCap))
            /\ t.masteryLevel =
                   MathMin(Num(MasteryCap),
                           NumAdd(Num(t.sessionsCount * SessionWeight),
                                  NumMul(t.quizAverage, Rat(1, 2))))

(* C7: after every successful submitQuiz, averageScore is the arithmetic   *)
(* mean of the percentages of all stored results and totalQuizzes is the   *)
(* number of stored results.                                               *)
C7_AverageScoreIsMeanAfterSubmit ==
    SubmitSucceeded =>
        /\ totalQuizzes = Len(quizResults)
        /\ averageScore = MeanPercentage(quizResults)

\* a submitQuiz has just averaged two results of different percentage
C7_Witness ==
    /\ SubmitSucceeded
    /\ Len(quizResults) = 2
    /\ quizResults[1].percentage # quizResults[2].percentage
    /\ IsFinite(averageScore)

(* C8: quizResults is append-only: every step leaves it unchanged or adds  *)
(* one entry at the end, and a successful submitQuiz adds exactly its own  *)
(* result, also for a quiz id and answers that are stored already.         *)
C8_QuizResultsAppendOnly ==
    [][/\ \/ quizResults' = quizResults
          \/ /\ Len(quizResults') = Len(quizResults) + 1
             /\ SubSeq(quizResults', 1, Len(quizResults)) = quizResults
       /\ SubmitStep =>
              /\ Len(quizResults') = Len(quizResults) + 1
              /\ quizResults'[Len(quizResults')] = response'.result[1]]_vars

\* the same quiz submitted twice with identical answers: two entries
C8_Witness ==
    \E i, j \in 1..Len(quizResults) :
        /\ i < j
        /\ quizResults[i].quizId = quizResults[j].quizId
        /\ quizResults[i].answers = quizResults[j].answers
        /\ quizzes[quizResults[i].quizId].questions # <<>>

(* C9: a successful submitQuiz returns score = the points of exactly the   *)
(* questions answered correctly ignoring letter case, maxScore = the sum   *)
(* of all points and percentage = 100*score/maxScore; the quiz of 10 and   *)
(* 15 points with answers a (for A) and False (for True) gives 10, 25, 40. *)
C9_ScoreMaxScorePercentage ==
    SubmitSucceeded =>
        LET r == response.result[1]
            questions == quizzes[r.quizId].questions
        IN  /\ r.score = PointsOf(questions, CorrectlyAnswered(questions, r.answers))
            /\ r.maxScore = PointsOf(questions, 1..Len(questions))
            /\ r.percentage = Rat(PercentScale * r.score, r.maxScore)
            /\ (questions = TwoQuestions /\ r.answers = ScenarioAnswers) =>
                   (r.score = 10 /\ r.maxScore = 25 /\ r.percentage = Num(40))

\* the scenario has just been submitted and scored 10 of 25
C9_Witness ==
    /\ SubmitSucceeded
    /\ quizzes[response.result[1].quizId].questions = TwoQuestions
    /\ response.result[1].answers = ScenarioAnswers
    /\ response.result[1].score = 10

(* C10: a submitQuiz with an unknown quiz id answers not-found and leaves  *)
(* the whole UserState unchanged: a step that ends in a 404 response       *)
(* changes nothing of the user's state, and a step that stores a result    *)
(* is for a quiz the store holds.                                          *)
C10_UnknownQuizLeavesStateUnchanged ==
    [][/\ response'.status = 404 => userState' = userState
       /\ SubmitStep => response'.result[1].quizId \in DOMAIN quizzes]_vars

\* a not-found answer given by a store that holds a quiz and a result
C10_Witness ==
    /\ response.op = "submitQuiz"
    /\ response.status = 404
    /\ quizResults # <<>>
    /\ recentActivity # <<>>

\* C11: a completeSession call whose session id is not stored answers with
\* success (status 200) and leaves the whole user state as it was.
C11_UnknownSessionIsSilentNoOp ==
    [][\A sessionId \in 1..(MaxOps + 1) :
          (SessionIndex(sessions, sessionId) = 0 /\ CompleteSession(sessionId))
              => (response'.status = 200 /\ userState' = userState)]_vars

\* an unknown id was completed while sessions were stored, none of them completed
C11_Witness ==
    /\ response.op = "completeSession"
    /\ response.status = 200
    /\ sessions # <<>>
    /\ \A i \in 1..Len(sessions) : sessions[i].status = "active"
    /\ topicsStudied = <<>>

\* messages i and i + 1 of a history are one turn
IsTurn(messages, i) ==
    /\ messages[i].role = "user"
    /\ messages[i + 1].role = "assistant"
    /\ messages[i + 1].timestamp = messages[i].timestamp + 1

\* C19: however concurrent chat requests of one user interleave, every stored
\* chat history is a concatenation of turns: its length is even, the roles
\* alternate starting with user, and each assistant message is stamped one
\* millisecond after the user message before it.
C19_HistoriesAreWholeTurns ==
    \A s \in DOMAIN chatHistories :
        /\ Len(chatHistories[s]) % 2 = 0
        /\ \A i \in 1..Len(chatHistories[s]) :
               i % 2 = 1 => IsTurn(chatHistories[s], i)

\* two requests of one session both read the empty history before either saved
C19_Witness ==
    \E s \in DOMAIN chatHistories :
        /\ Len(chatHistories[s]) = 4
        /\ Len(chatReqs) = 2
        /\ \A r \in 1..2 :
               /\ chatReqs[r].sessionId = s
               /\ chatReqs[r].status = 200
               /\ chatReqs[r].history = <<>>

\* C20: within one chat history the timestamps never decrease in stored order
C20_TimestampsNonDecreasing ==
    \A s \in DOMAIN chatHistories :
        \A i, j \in 1..Len(chatHistories[s]) :
            i < j => chatHistories[s][i].timestamp <= chatHistories[s][j].timestamp

\* the smaller of two integers
Least(a, b) == IF a <= b THEN a ELSE b

\* the claimed interval for a whole mastery level
ClaimedInterval(level) ==
    IF level >= 80 THEN 7 ELSE IF level >= 60 THEN 3 ELSE IF level >= 40 THEN 2 ELSE 1

\* the mastery level the store holds for a topic, or 0 without history; none
\* when the stored level is not a whole number in 0..100
WholeStoredMastery(topic) ==
    LET i == TopicIndex(topicsStudied, topic)
    IN  IF i = 0 THEN {0}
        ELSE {p \in 0..100 : topicsStudied[i].masteryLevel = Num(p)}

\* C18: a completed run of the study workflow, for previous mastery p in
\* 0..100 and duration d in 5..120, returns newLevel = min(100, p + 5 +
\* min(10, floor(d / 10))) and intervalDays 7, 3, 2 or 1 for newLevel at least
\* 80, 60, 40 or less; without history and with d = 30 the approach is
\* 'introduction', newLevel is 8 and intervalDays is 1.
C18_MasteryAndIntervalByFormula ==
    \A r \in 1..Len(studyRuns) :
        studyRuns[r].pc = "done" =>
            LET run == studyRuns[r]
                d == run.duration
            IN  /\ \A p \in WholeStoredMastery(run.topic) :
                       LET level == Least(100, p + 5 + Least(10, d \div 10))
                       IN  /\ run.result.masteryUpdate.newLevel = Num(level)
                           /\ run.result.repetitionSchedule.intervalDays
                                  = ClaimedInterval(level)
                /\ (topicsStudied = <<>> /\ d = 30) =>
                       /\ run.result.learningPath.approach = "introduction"
                       /\ run.result.masteryUpdate.newLevel = Num(8)
                       /\ run.result.repetitionSchedule.intervalDays = 1

\* a run of 115 minutes from mastery 70 ended at level 85 with a 7-day interval
C18_Witness ==
    \E r \in 1..Len(studyRuns) :
        /\ studyRuns[r].pc = "done"
        /\ studyRuns[r].duration = 115
        /\ WholeStoredMastery(studyRuns[r].topic) = {70}
        /\ studyRuns[r].result.masteryUpdate.newLevel = Num(85)
        /\ studyRuns[r].result.repetitionSchedule.intervalDays = 7

\* runs of the quiz workflow, without the gateway's direct generations
WorkflowRuns == {r \in 1..Len(quizRuns) : quizRuns[r].via = "workflow"}

\* the steps of the quiz workflow after generate-questions, and the end
AfterGeneration ==
    {"validate-questions", "create-answer-key", "store-quiz", "finalize-quiz", "done"}

\* every question of the list is an open question worth 10 points
AllOpenQuestions(questions) ==
    \A i \in 1..Len(questions) :
        /\ questions[i].type = "short-answer"
        /\ questions[i].points = 10
        /\ questions[i].correctAnswer = <<Word("Open-ended answer")>>

\* C12: a failure of the generator never aborts a workflow run.  After a
\* failure in identify-concepts the quiz run goes on with the three template
\* concepts, after one in generate-questions with open fallback questions,
\* and after one in generate-summary the study run goes on with the fallback
\* summary; such a run is never errored and, once finished, its result has
\* success = true and carries the fallback content.
C12_GeneratorFailureNeverAborts ==
    /\ \A r \in WorkflowRuns :
           LET run == quizRuns[r]
           IN  /\ run.aiFailures # {} => run.pc # "errored"
               /\ "identify-concepts" \in run.aiFailures =>
                      /\ run.pc \in AfterGeneration \cup {"generate-questions"}
                      /\ Len(run.keyConcepts) = 3
                      /\ run.pc = "done" =>
                             /\ run.result.success
                             /\ Len(run.result.keyConcepts) = 3
               /\ "generate-questions" \in run.aiFailures =>
                      /\ run.pc \in AfterGeneration
                      /\ run.generated # <<>>
                      /\ AllOpenQuestions(run.generated)
                      /\ run.pc = "done" =>
                             /\ run.result.success
                             /\ run.result.quiz.questions = run.generated
    /\ \A r \in 1..Len(studyRuns) :
           LET run == studyRuns[r]
           IN  run.aiOutcome = <<"throws">> =>
                   /\ run.pc \in {"update-mastery", "schedule-repetition",
                                  "finalize-workflow", "done"}
                   /\ run.summary = <<"Completed", run.duration,
                                      "-minute study session on", run.topic>>
                   /\ run.pc = "done" =>
                          /\ run.result.success
                          /\ run.result.summary = run.summary

\* a finished quiz run in which both generator calls failed
C12_Witness ==
    \E r \in WorkflowRuns :
        /\ quizRuns[r].aiFailures = {"identify-concepts", "generate-questions"}
        /\ quizRuns[r].pc = "done"
        /\ quizRuns[r].result.success

\* a finished study run whose summary call failed
C12_WitnessStudy ==
    \E r \in 1..Len(studyRuns) :
        /\ studyRuns[r].aiOutcome = <<"throws">>
        /\ studyRuns[r].pc = "done"

\* C13: when the store answers the save of store-quiz with an error, the run
\* does not finish with success = true; a run that returned success = true
\* with quiz id q has a quiz with id q in the user's store.
C13_FailedSaveIsFatal ==
    \A r \in WorkflowRuns :
        LET run == quizRuns[r]
        IN  /\ run.saveStatus = 500 => ~(run.pc = "done" /\ run.result.success)
            /\ (run.pc = "done" /\ run.result.success) =>
                   run.result.quizId \in DOMAIN quizzes

\* the cache key of a run
KeyOf(r) == <<"quiz", quizRuns[r].topic, quizRuns[r].difficulty, quizRuns[r].questionCount>>

\* a list was cached under the key less than an hour ago
LiveEntry(key) ==
    /\ key \in DOMAIN cache
    /\ now - (cache[key].expires - 3600 * 1000) < 3600 * 1000

\* this step is run r carrying out generate-questions
GenerateStepOf(r) ==
    /\ quizRuns[r].pc = "generate-questions"
    /\ quizRuns'[r].pc # "generate-questions"

DistinctIds(questions) ==
    \A i, j \in 1..Len(questions) : i # j => questions[i].id # questions[j].id

\* C15: every quiz the quiz workflow persists has pairwise distinct question
\* ids, whatever the candidates' own ids, and its answer key has exactly one
\* entry per validated question.
C15_PersistedQuestionIdsDistinct ==
    \A r \in WorkflowRuns :
        quizRuns[r].saveStatus = 200 =>
            /\ DistinctIds(quizzes[quizRuns[r].quizId].questions)
            /\ Cardinality(DOMAIN quizRuns[r].answerKey)
                   = Len(quizzes[quizRuns[r].quizId].questions)

\* the text mentions the concept
Mentions(text, concept) ==
    \E i \in 1..Len(text) :
        /\ i + Len(concept) - 1 <= Len(text)
        /\ SubSeq(text, i, i + Len(concept) - 1) = concept

\* the generations whose generator call yielded no question list
FailedGenerations ==
    {r \in 1..Len(quizRuns) :
        /\ "generate-questions" \in quizRuns[r].aiFailures
        /\ quizRuns[r].pc \in AfterGeneration}

\* C16: whenever question generation fails, the produced list has exactly
\* min(requestedCount, 5) short-answer questions with ids q1..qn and 10 points
\* each, the i-th of them (counting from 0) naming concept i mod the number
\* of concepts, or the topic when there are no concepts.
C16_FallbackListShape ==
    \A r \in FailedGenerations :
        LET run == quizRuns[r]
            n == IF run.questionCount < 5 THEN run.questionCount ELSE 5
        IN  /\ Len(run.generated) = n
            /\ \A i \in 1..Len(run.generated) :
                   /\ run.generated[i].id = QIds[i]
                   /\ run.generated[i].type = "short-answer"
                   /\ run.generated[i].points = 10
                   /\ Mentions(run.generated[i].question,
                          IF run.keyConcepts = <<>> THEN <<Word(run.topic)>>
                          ELSE run.keyConcepts[((i - 1) % Len(run.keyConcepts)) + 1])

\* the places of the usable candidates of a list, in order
UsablePlaces(candidates) ==
    {i \in 1..Len(candidates) :
        /\ candidates[i].question # <<>>
        /\ candidates[i].correctAnswer # <<>>
        /\ candidates[i].explanation # <<>>}

\* the k-th smallest element of a set of numbers
Kth(S, k) == CHOOSE x \in S : Cardinality({y \in S : y <= x}) = k

\* C17: the question list of every quiz the quiz workflow persists contains
\* only questions with text, correct answer and explanation, in the order of
\* the generated list, and has at most questionCount entries: it is the first
\* questionCount usable candidates, or all of them when they are fewer; for
\* lists from the generator, from the fallback and from the cache.
C17_PersistedQuestionsValidOrderedCut ==
    \A r \in WorkflowRuns :
        quizRuns[r].saveStatus = 200 =>
            LET run == quizRuns[r]
                stored == quizzes[run.quizId].questions
                usable == UsablePlaces(run.generated)
            IN  /\ Len(stored) <= run.questionCount
                /\ Len(stored) = IF Cardinality(usable) < run.questionCount
                                 THEN Cardinality(usable) ELSE run.questionCount
                /\ \A k \in 1..Len(stored) :
                       /\ stored[k].question # <<>>
                       /\ stored[k].correctAnswer # <<>>
                       /\ stored[k].explanation # <<>>
                       /\ stored[k].question = run.generated[Kth(usable, k)].question
                       /\ stored[k].correctAnswer
                              = run.generated[Kth(usable, k)].correctAnswer
                       /\ stored[k].explanation
                              = run.generated[Kth(usable, k)].explanation

\* a run stored the first two usable candidates of a cached list of four, one
\* of which was unusable
C17_Witness ==
    \E r \in WorkflowRuns :
        /\ quizRuns[r].source = "cache"
        /\ quizRuns[r].saveStatus = 200
        /\ quizRuns[r].questionCount = 2
        /\ Len(quizRuns[r].generated) = 4
        /\ Cardinality(UsablePlaces(quizRuns[r].generated)) = 3
        /\ Len(quizzes[quizRuns[r].quizId].questions) = 2

----------------------------------------------------------------------------
(* C30, as claimed: every stored QuizResult has 0 <= score <= maxScore and *)
(* a percentage that is a number in 0..100, and averageScore is a number   *)
(* in 0..100.  Refuted by the quiz without questions: maxScore is 0 and    *)
(* the percentage 0/0 is NaN, which the average then carries.              *)
C30_ScoresAndPercentagesWellDefined ==
    /\ \A k \in 1..Len(quizResults) :
           LET r == quizResults[k]
           IN  /\ 0 <= r.score
               /\ r.score <= r.maxScore
               /\ IsFinite(r.percentage)
               /\ NumLe(Num(0), r.percentage)
               /\ NumLe(r.percentage, Num(PercentScale))
    /\ IsFinite(averageScore)
    /\ NumLe(Num(0), averageScore)
    /\ NumLe(averageScore, Num(PercentScale))

\* the positions of the stored sessions whose status is active
ActivePositions == {i \in 1..Len(sessions) : sessions[i].status = "active"}

(* C22: whenever getCurrentSession has just answered, its result is the    *)
(* active session created last (no active session was created after it),   *)
(* and it is null exactly when no stored session is active.                *)
C22_CurrentIsLastCreatedActive ==
    response.op = "getCurrentSession" =>
        /\ (response.result = <<>>) <=> (ActivePositions = {})
        /\ ActivePositions # {} =>
               \E i \in ActivePositions :
                   /\ response.result = <<sessions[i]>>
                   /\ \A j \in ActivePositions : j <= i

\* the answer is the second of two active sessions, with a completed one
\* created after both
C22_Witness ==
    /\ response.op = "getCurrentSession"
    /\ Len(sessions) >= 3
    /\ sessions[1].status = "active"
    /\ sessions[2].status = "active"
    /\ sessions[3].status = "completed"
    /\ response.result = <<sessions[2]>>

C21_RecentActivityNewestFirst ==
    \A i, j \in 1..Len(recentActivity) :
        i < j => recentActivity[i].timestamp >= recentActivity[j].timestamp

(* C28, as claimed: when the store answered a quiz submission with         *)
(* not-found, the gateway's Response to POST /api/quiz/submit has a        *)
(* non-success status.  Refuted: the gateway wraps the store's body in a   *)
(* Response of status 200.                                                 *)
C28_NotFoundIsAnErrorResponse ==
    (/\ apiResponse.op = "submitQuiz"
     /\ response.op = "submitQuiz"
     /\ response.status = 404)
        => apiResponse.status \notin 200..299

\* the runs that finished and whose quiz is in the store
SavedRuns ==
    {r \in 1..Len(quizRuns) :
        quizRuns[r].pc = "done" /\ quizRuns[r].quizId \in DOMAIN quizzes}

(* C29, as claimed: once the generation started for the page's request has *)
(* finished and saved its quiz, the quizId the page sends to               *)
(* POST /api/quiz/submit is the id of that quiz.  Refuted: the client      *)
(* returns a mock quizId of its own making.                                *)
C29_SubmittedIdIsTheGeneratedQuiz ==
    (apiResponse.op = "submitQuiz" /\ SavedRuns # {}) =>
        \E r \in SavedRuns : client.quizId = quizRuns[r].quizId

(* C27, as claimed: a mutating operation whose durable write failed leaves *)
(* no effect that later operations can see: whenever getCurrentSession has *)
(* just answered, its answer is the one the last persisted state gives.    *)
(* Refuted: the handler changes the state in memory before the put, and    *)
(* the object goes on serving it.                                          *)
C27_ReadsServeLastPersistedState ==
    response.op = "getCurrentSession" =>
        response.result = CurrentSession(LoadedState[1])

\* the memory and the storage of a user id's instance
InstanceOf(u) == IF u = user THEN <<userState, storage>> ELSE parked[u]

HasExecuted(run, step) == \E i \in 1..Len(run.executed) : run.executed[i] = step

(* C24: in every run of the Study Session Workflow the callbacks that have *)
(* returned are an initial part of the fixed order of the eight steps,     *)
(* each at most once, also after the run was resumed; generate-summary has *)
(* run only if the sleep was begun after initialisation and the clock has  *)
(* reached its wake time, a whole duration later; and a run terminated     *)
(* during the sleep has run none of generate-summary, update-mastery and   *)
(* schedule-repetition.                                                    *)
C24_StepsInOrderOnceAndAfterTheSleep ==
    \A r \in 1..Len(studyRuns) :
        LET run == studyRuns[r]
        IN  /\ Len(run.executed) <= Len(StudySteps)
            /\ \A i \in 1..Len(run.executed) : run.executed[i] = StudySteps[i]
            /\ HasExecuted(run, "generate-summary") =>
                   /\ run.wakeAt # <<>>
                   /\ now >= run.wakeAt[1]
                   /\ run.wakeAt[1] >= run.startTime[1]
                          + run.duration * SecondsPerMinute * MsPerSecond
            /\ run.cancelledIn = <<"sleeping">> =>
                   /\ ~HasExecuted(run, "generate-summary")
                   /\ ~HasExecuted(run, "update-mastery")
                   /\ ~HasExecuted(run, "schedule-repetition")

\* a run that failed, was resumed and has finished at its wake time, every
\* step run once
C24_Witness ==
    /\ Len(studyRuns) = 1
    /\ studyRuns[1].resumed
    /\ studyRuns[1].pc = "done"
    /\ studyRuns[1].executed = StudySteps
    /\ now = studyRuns[1].wakeAt[1]

(* C25, as claimed: after a run of the Quiz Generation Workflow whose save *)
(* the store answered with success, the store holds exactly one quiz       *)
(* created by that run, and its id is the quizId the run returns, also     *)
(* when store-quiz was executed again after a failure.                     *)
(* Refuted: every execution of store-quiz makes a new id and saves a new   *)
(* quiz.                                                                   *)
QuizzesSavedBy(r) ==
    {q \in DOMAIN quizzes :
        \E k \in 0..MaxLostSaves : q = QuizIdOf(r) + k * MaxQuizRuns}

C25_RetryLeavesExactlyOneQuiz ==
    \A r \in 1..Len(quizRuns) :
        (quizRuns[r].pc = "done" /\ quizRuns[r].saveStatus = 200) =>
            QuizzesSavedBy(r) = {quizRuns[r].result.quizId}

====
